---- MODULE Spec2Model ----
(***************************************************************************)
(* ABLS module firmware: over-the-air update and dual-bank flash safety.   *)
(*                                                                         *)
(* The module models src/Firmware/ABLSModule: RgFModuleUpdater (the update *)
(* workflow), FlashTxx.c in its two variants (flash primitives),           *)
(* FlashBackupManager (backup bank), UpdateSafetyManager (safety gate),    *)
(* VersionManager (update session), OTAUpdateManager and NetworkManager    *)
(* (command protocols).  The firmware is single-threaded: a workflow that  *)
(* has started runs to its end before any other handler runs, so the only *)
(* event that interleaves with the steps of a workflow is a loss of power. *)
(*                                                                         *)
(* Flash geometry is scaled down: a sector holds SectorBytes bytes, a bank *)
(* BankSectors sectors.  Ratios that the code fixes (two banks per flash,  *)
(* the copy chunk equal to one sector, the base address a multiple of the  *)
(* flash size) are kept.                                                   *)
(***************************************************************************)
EXTENDS Integers, Sequences, FiniteSets, TLC

(***************************************************************************)
(* Bounds                                                                  *)
(***************************************************************************)
SectorBytes == 2
BankSectors == 2
CodeSectors == 1
ReserveSectors == 1
MaxImageLen == 3

(***************************************************************************)
(* 32-bit unsigned arithmetic.  A uint32_t is a pair <<hi, lo>> of 16-bit  *)
(* halves, so that no intermediate value leaves the range of TLC's       *)
(* integers.                                                               *)
(***************************************************************************)
RECURSIVE BitXor(_, _, _)
BitXor(a, b, n) ==
    IF n = 0 THEN 0
    ELSE (((a % 2) + (b % 2)) % 2) + 2 * BitXor(a \div 2, b \div 2, n - 1)

RECURSIVE BitAnd(_, _, _)
BitAnd(a, b, n) ==
    IF n = 0 THEN 0
    ELSE ((a % 2) * (b % 2)) + 2 * BitAnd(a \div 2, b \div 2, n - 1)

XorNibble == [a \in 0..15 |-> [b \in 0..15 |-> BitXor(a, b, 4)]]
AndNibble == [a \in 0..15 |-> [b \in 0..15 |-> BitAnd(a, b, 4)]]

Xor8(a, b) == (XorNibble[a \div 16][b \div 16] * 16) + XorNibble[a % 16][b % 16]
And8(a, b) == (AndNibble[a \div 16][b \div 16] * 16) + AndNibble[a % 16][b % 16]
Xor16(a, b) == (Xor8(a \div 256, b \div 256) * 256) + Xor8(a % 256, b % 256)
And16(a, b) == (And8(a \div 256, b \div 256) * 256) + And8(a % 256, b % 256)

WXor(x, y) == <<Xor16(x[1], y[1]), Xor16(x[2], y[2])>>
WAnd(x, y) == <<And16(x[1], y[1]), And16(x[2], y[2])>>
WNot(x) == <<65535 - x[1], 65535 - x[2]>>
WAdd(x, y) ==
    LET lo == x[2] + y[2]
        hi == x[1] + y[1] + (lo \div 65536)
    IN <<hi % 65536, lo % 65536>>
WShr(x, n) ==
    IF n = 0 THEN x
    ELSE IF n < 16
         THEN <<x[1] \div (2 ^ n), (x[2] \div (2 ^ n)) + ((x[1] % (2 ^ n)) * (2 ^ (16 - n)))>>
         ELSE <<0, x[1] \div (2 ^ (n - 16))>>
WShl(x, n) ==
    IF n = 0 THEN x
    ELSE IF n < 16
         THEN <<((x[1] * (2 ^ n)) % 65536) + (x[2] \div (2 ^ (16 - n))), (x[2] * (2 ^ n)) % 65536>>
         ELSE <<(x[2] * (2 ^ (n - 16))) % 65536, 0>>
\* x | y for words whose set bits are disjoint (the two halves of a rotation)
WOrDisjoint(x, y) == WAdd(x, y)

(***************************************************************************)
(* SHA-256 as implemented in RgFModuleUpdater.cpp                          *)
(***************************************************************************)
SHA256_ROTR(x, n) == WOrDisjoint(WShr(x, n), WShl(x, 32 - n))
SHA256_CH(x, y, z) == WXor(WAnd(x, y), WAnd(WNot(x), z))
SHA256_MAJ(x, y, z) == WXor(WXor(WAnd(x, y), WAnd(x, z)), WAnd(y, z))
SHA256_EP0(x) == WXor(WXor(SHA256_ROTR(x, 2), SHA256_ROTR(x, 13)), SHA256_ROTR(x, 22))
SHA256_EP1(x) == WXor(WXor(SHA256_ROTR(x, 6), SHA256_ROTR(x, 11)), SHA256_ROTR(x, 25))
SHA256_SIG0(x) == WXor(WXor(SHA256_ROTR(x, 7), SHA256_ROTR(x, 18)), WShr(x, 3))
SHA256_SIG1(x) == WXor(WXor(SHA256_ROTR(x, 17), SHA256_ROTR(x, 19)), WShr(x, 10))

sha256_k ==
    <<
    <<17034, 12184>>, <<28983, 17553>>, <<46528, 64463>>, <<59829, 56229>>,
    <<14678, 49755>>, <<23025, 4593>>, <<37439, 33444>>, <<43804, 24277>>,
    <<55303, 43672>>, <<4739, 23297>>, <<9265, 34238>>, <<21772, 32195>>,
    <<29374, 23924>>, <<32990, 45566>>, <<39900, 1703>>, <<49563, 61812>>,
    <<58523, 27073>>, <<61374, 18310>>, <<4033, 40390>>, <<9228, 41420>>,
    <<11753, 11375>>, <<19060, 33962>>, <<23728, 43484>>, <<30457, 35034>>,
    <<38974, 20818>>, <<43057, 50797>>, <<45059, 10184>>, <<48985, 32711>>,
    <<50912, 3059>>, <<54695, 37191>>, <<1738, 25425>>, <<5161, 10599>>,
    <<10167, 2693>>, <<11803, 8504>>, <<19756, 28156>>, <<21304, 3347>>,
    <<25866, 29524>>, <<30314, 2747>>, <<33218, 51502>>, <<37490, 11397>>,
    <<41663, 59553>>, <<43034, 26187>>, <<49739, 35696>>, <<51052, 20899>>,
    <<53650, 59417>>, <<54937, 1572>>, <<62478, 13701>>, <<4202, 41072>>,
    <<6564, 49430>>, <<7735, 27656>>, <<10056, 30540>>, <<13488, 48309>>,
    <<14620, 3251>>, <<20184, 43594>>, <<23452, 51791>>, <<26670, 28659>>,
    <<29839, 33518>>, <<30885, 25455>>, <<33992, 30740>>, <<36039, 520>>,
    <<37054, 65530>>, <<42064, 27883>>, <<48889, 41975>>, <<50801, 30962>>
    >>

sha256_init ==
    << <<27145, 58983>>, <<47975, 44677>>, <<15470, 62322>>, <<42319, 62778>>,
       <<20750, 21119>>, <<39685, 26764>>, <<8067, 55723>>, <<23520, 52505>> >>

\* m[16..63] of sha256_transform
RECURSIVE sha256_schedule(_)
sha256_schedule(m) ==
    IF Len(m) = 64 THEN m
    ELSE LET i == Len(m) + 1
         IN sha256_schedule(Append(m,
                WAdd(WAdd(WAdd(SHA256_SIG1(m[i - 2]), m[i - 7]), SHA256_SIG0(m[i - 15])), m[i - 16])))

\* the 64 rounds of sha256_transform on s = <<a, b, c, d, e, f, g, h>>
RECURSIVE sha256_rounds(_, _, _)
sha256_rounds(s, m, i) ==
    IF i > 64 \/ Len(s) # 8 THEN s
    ELSE LET t1 == WAdd(WAdd(WAdd(WAdd(s[8], SHA256_EP1(s[5])), SHA256_CH(s[5], s[6], s[7])),
                             sha256_k[i]), m[i])
             t2 == WAdd(SHA256_EP0(s[1]), SHA256_MAJ(s[1], s[2], s[3]))
         IN sha256_rounds(<<WAdd(t1, t2), s[1], s[2], s[3], WAdd(s[4], t1), s[5], s[6], s[7]>>,
                          m, i + 1)

sha256_transform(state, data) ==
    LET m16 == [i \in 1..16 |->
                  <<(data[4 * i - 3] * 256) + data[4 * i - 2], (data[4 * i - 1] * 256) + data[4 * i]>>]
        m == sha256_schedule(m16)
        r == IF Len(m) = 64 THEN sha256_rounds(state, m, 1) ELSE state
    IN IF Len(r) = 8 THEN [i \in 1..8 |-> WAdd(state[i], r[i])] ELSE state

\* sha256_update: every full 64-byte block is transformed, the rest is kept
RECURSIVE sha256_update(_, _)
sha256_update(state, data) ==
    IF Len(data) < 64 THEN <<state, data>>
    ELSE sha256_update(sha256_transform(state, SubSeq(data, 1, 64)), SubSeq(data, 65, Len(data)))

Zeros(n) == [i \in 1..n |-> 0]

\* sha256_final: padding, the bit length, and the big-endian digest bytes
sha256_final(state, rest, size) ==
    LET bitlen == size * 8
        lenBytes == <<0, 0, 0, 0, (bitlen \div 16777216) % 256, (bitlen \div 65536) % 256,
                      (bitlen \div 256) % 256, bitlen % 256>>
        s1 == IF Len(rest) < 56 THEN state
              ELSE sha256_transform(state, rest \o <<128>> \o Zeros(63 - Len(rest)))
        last == IF Len(rest) < 56 THEN rest \o <<128>> \o Zeros(55 - Len(rest)) \o lenBytes
                ELSE Zeros(56) \o lenBytes
        s2 == IF Len(s1) = 8 THEN sha256_transform(s1, last) ELSE s1
    IN [i \in 1..32 |->
          LET w == s2[((i - 1) \div 4) + 1]
              b == (i - 1) % 4
          IN IF b = 0 THEN w[1] \div 256 ELSE IF b = 1 THEN w[1] % 256
             ELSE IF b = 2 THEN w[2] \div 256 ELSE w[2] % 256]

sha256_digest(data) ==
    LET u == sha256_update(sha256_init, data)
    IN sha256_final(u[1], u[2], Len(data))

(***************************************************************************)
(* CRC32 (reflected, polynomial 0xEDB88320) as in calculateCRC32 and       *)
(* FlashBackupManager::calculateFirmwareChecksum                           *)
(***************************************************************************)
RECURSIVE crc32_bits(_, _)
crc32_bits(crc, j) ==
    IF j = 0 THEN crc
    ELSE LET sh == WShr(crc, 1)
         IN crc32_bits(IF crc[2] % 2 = 1 THEN WXor(sh, <<60856, 33568>>) ELSE sh, j - 1)

RECURSIVE crc32_loop(_, _, _)
crc32_loop(crc, data, i) ==
    IF i > Len(data) THEN crc
    ELSE crc32_loop(crc32_bits(WXor(crc, <<0, data[i]>>), 8), data, i + 1)

calculateCRC32(data) == WNot(crc32_loop(<<65535, 65535>>, data, 1))

(***************************************************************************)
(* Flash geometry (FlashTxx.h, FlasherX/FlashTxx.h, FlashBackupManager.h)  *)
(***************************************************************************)
FLASH_SECTOR_SIZE == SectorBytes
FIRMWARE_MAX_SIZE == BankSectors * FLASH_SECTOR_SIZE
\* the 8 MB flash is two banks of FIRMWARE_MAX_SIZE
FLASH_SIZE == 2 * FIRMWARE_MAX_SIZE
\* 0x60000000 is 192 times the flash size 0x800000
FLASH_BASE_ADDR == 192 * FLASH_SIZE
FLASH_RESERVE == ReserveSectors * FLASH_SECTOR_SIZE
CURRENT_FIRMWARE_BASE == FLASH_BASE_ADDR
BACKUP_FIRMWARE_BASE == FLASH_BASE_ADDR + FIRMWARE_MAX_SIZE
\* the copy loops move 4096 bytes at a time, which is one sector
CHUNK_SIZE == FLASH_SECTOR_SIZE
\* end of the running program's text: it ends inside its last sector
etext == FLASH_BASE_ADDR + (CodeSectors * FLASH_SECTOR_SIZE) - 1

ERASED == 255
\* the target id that check_flash_id looks for, one byte in this scale
FLASH_ID == <<84>>
\* the image the device runs when it leaves the factory: id, then code
FactoryImage == [i \in 1..(etext - FLASH_BASE_ADDR) |-> IF i = 1 THEN FLASH_ID[1] ELSE 2]

ImageBytes == {FLASH_ID[1], 1}
RECURSIVE SeqsUpTo(_, _)
SeqsUpTo(S, n) ==
    IF n = 0 THEN {<< >>}
    ELSE LET shorter == SeqsUpTo(S, n - 1)
         IN shorter \cup {Append(q, b) : q \in {t \in shorter : Len(t) = n - 1}, b \in S}
\* the firmware images a caller may hand to the updater
Images == SeqsUpTo(ImageBytes, MaxImageLen)

Min(a, b) == IF a < b THEN a ELSE b
AlignUp(a) == ((a + FLASH_SECTOR_SIZE - 1) \div FLASH_SECTOR_SIZE) * FLASH_SECTOR_SIZE
AlignDown(a) == (a \div FLASH_SECTOR_SIZE) * FLASH_SECTOR_SIZE

\* digests of the byte strings that occur most, as sha256_digest computes them
SHA256Table ==
    <<>> :>
        <<227, 176, 196, 66, 152, 252, 28, 20, 154, 251, 244, 200, 153, 111, 185, 36, 39, 174, 65, 228, 100, 155, 147, 76, 164, 149, 153, 27, 120, 82, 184, 85>> @@
    <<84>> :>
        <<230, 50, 183, 9, 91, 11, 243, 44, 38, 15, 164, 197, 57, 233, 253, 123, 133, 45, 13, 228, 84, 233, 190, 38, 242, 77, 13, 111, 145, 208, 105, 211>> @@
    <<1>> :>
        <<75, 245, 18, 47, 52, 69, 84, 197, 59, 222, 46, 187, 140, 210, 183, 227, 209, 96, 10, 214, 49, 195, 133, 165, 215, 204, 226, 60, 119, 133, 69, 154>> @@
    <<84, 84>> :>
        <<151, 121, 70, 149, 137, 249, 86, 244, 52, 183, 11, 87, 131, 2, 220, 186, 160, 132, 165, 234, 187, 1, 36, 204, 214, 27, 10, 229, 140, 89, 110, 112>> @@
    <<84, 1>> :>
        <<46, 133, 58, 154, 76, 43, 88, 145, 23, 202, 208, 37, 12, 17, 60, 25, 156, 220, 236, 174, 20, 152, 235, 131, 62, 233, 171, 201, 167, 197, 129, 225>> @@
    <<1, 84>> :>
        <<181, 90, 61, 51, 45, 38, 116, 147, 16, 89, 39, 184, 146, 84, 93, 44, 212, 200, 59, 214, 214, 101, 73, 108, 240, 37, 80, 135, 229, 152, 126, 134>> @@
    <<1, 1>> :>
        <<157, 207, 151, 161, 132, 243, 38, 35, 209, 26, 115, 18, 76, 235, 153, 165, 112, 155, 8, 55, 33, 232, 120, 161, 109, 120, 245, 150, 113, 139, 167, 178>> @@
    <<84, 84, 84>> :>
        <<83, 242, 206, 25, 167, 242, 30, 168, 103, 132, 158, 173, 24, 155, 175, 255, 10, 73, 26, 202, 117, 174, 223, 83, 52, 253, 74, 238, 155, 187, 52, 43>> @@
    <<84, 84, 1>> :>
        <<148, 224, 37, 157, 0, 154, 3, 153, 199, 132, 101, 17, 204, 174, 2, 91, 86, 202, 211, 183, 35, 184, 99, 214, 163, 179, 237, 67, 238, 156, 26, 203>> @@
    <<84, 1, 84>> :>
        <<76, 7, 66, 156, 84, 173, 170, 38, 253, 12, 79, 189, 144, 18, 224, 55, 148, 166, 10, 5, 75, 57, 102, 239, 210, 95, 30, 235, 226, 179, 107, 108>> @@
    <<84, 1, 1>> :>
        <<251, 148, 112, 104, 223, 60, 1, 107, 75, 146, 133, 76, 152, 38, 196, 241, 197, 153, 244, 115, 91, 152, 50, 228, 86, 240, 9, 251, 202, 50, 104, 134>> @@
    <<1, 84, 84>> :>
        <<14, 216, 78, 115, 17, 30, 223, 223, 40, 29, 39, 182, 215, 11, 60, 111, 52, 92, 36, 255, 217, 89, 72, 126, 238, 133, 73, 145, 204, 168, 174, 207>> @@
    <<1, 84, 1>> :>
        <<102, 169, 219, 3, 168, 200, 88, 161, 109, 92, 32, 111, 8, 207, 145, 170, 84, 245, 209, 185, 204, 208, 99, 102, 38, 25, 247, 232, 250, 83, 123, 79>> @@
    <<1, 1, 84>> :>
        <<133, 80, 180, 210, 179, 179, 58, 201, 167, 91, 148, 167, 54, 87, 169, 163, 80, 61, 6, 193, 226, 15, 77, 73, 7, 196, 57, 42, 219, 228, 93, 43>> @@
    <<1, 1, 1>> :>
        <<117, 200, 253, 4, 173, 145, 106, 236, 62, 61, 92, 183, 106, 69, 43, 17, 107, 61, 77, 9, 18, 160, 164, 133, 233, 251, 142, 61, 36, 14, 33, 12>> @@
    <<84, 84, 84, 84>> :>
        <<63, 216, 178, 196, 174, 167, 68, 217, 80, 236, 176, 2, 132, 7, 1, 150, 210, 38, 137, 73, 107, 149, 206, 243, 243, 173, 112, 119, 211, 96, 237, 56>> @@
    <<84, 84, 84, 1>> :>
        <<79, 242, 126, 5, 207, 155, 9, 185, 68, 80, 242, 153, 85, 108, 159, 88, 110, 168, 40, 55, 211, 202, 170, 68, 220, 3, 15, 39, 158, 158, 63, 233>> @@
    <<84, 84, 1, 84>> :>
        <<167, 126, 122, 118, 204, 207, 25, 219, 75, 137, 164, 71, 244, 209, 19, 247, 70, 14, 77, 159, 122, 73, 6, 54, 228, 114, 230, 146, 233, 114, 90, 36>> @@
    <<84, 84, 1, 1>> :>
        <<68, 143, 3, 200, 142, 176, 164, 48, 195, 72, 215, 183, 103, 214, 54, 104, 216, 47, 222, 199, 184, 253, 95, 157, 29, 137, 24, 87, 253, 231, 136, 165>> @@
    <<84, 1, 84, 84>> :>
        <<43, 50, 249, 38, 199, 76, 166, 118, 171, 78, 39, 14, 51, 80, 138, 136, 97, 172, 134, 156, 34, 216, 167, 68, 109, 220, 253, 101, 60, 127, 70, 206>> @@
    <<84, 1, 84, 1>> :>
        <<247, 136, 108, 79, 105, 161, 125, 99, 26, 97, 248, 222, 119, 95, 125, 157, 85, 4, 83, 173, 2, 10, 26, 59, 96, 175, 72, 220, 168, 45, 149, 215>> @@
    <<84, 1, 1, 84>> :>
        <<207, 174, 184, 119, 58, 84, 151, 51, 161, 226, 103, 162, 159, 87, 168, 236, 118, 75, 32, 218, 190, 156, 69, 38, 47, 79, 234, 236, 243, 157, 223, 0>> @@
    <<84, 1, 1, 1>> :>
        <<15, 114, 135, 171, 210, 108, 51, 49, 135, 10, 33, 37, 116, 245, 122, 68, 200, 166, 80, 63, 196, 243, 124, 214, 116, 52, 123, 207, 252, 113, 242, 46>> @@
    <<1, 84, 84, 84>> :>
        <<240, 122, 139, 136, 68, 125, 9, 11, 186, 66, 98, 234, 98, 147, 126, 55, 16, 1, 147, 109, 190, 228, 112, 91, 103, 173, 133, 167, 227, 15, 3, 130>> @@
    <<1, 84, 84, 1>> :>
        <<32, 239, 127, 177, 48, 80, 255, 22, 142, 211, 90, 99, 169, 22, 195, 152, 103, 110, 160, 3, 92, 57, 44, 174, 213, 60, 80, 185, 17, 22, 84, 14>> @@
    <<1, 84, 1, 84>> :>
        <<11, 36, 40, 190, 158, 251, 193, 174, 57, 253, 148, 187, 228, 216, 51, 103, 8, 119, 248, 236, 17, 154, 131, 170, 21, 214, 3, 138, 42, 225, 13, 157>> @@
    <<1, 84, 1, 1>> :>
        <<202, 102, 190, 213, 203, 54, 100, 185, 134, 121, 114, 212, 150, 209, 249, 110, 49, 207, 137, 240, 29, 159, 90, 90, 171, 7, 66, 190, 113, 33, 108, 53>> @@
    <<1, 1, 84, 84>> :>
        <<40, 74, 97, 172, 167, 253, 150, 44, 200, 71, 141, 60, 40, 1, 122, 198, 49, 100, 122, 12, 52, 249, 2, 75, 204, 193, 87, 181, 196, 198, 143, 237>> @@
    <<1, 1, 84, 1>> :>
        <<249, 2, 135, 122, 247, 75, 115, 30, 170, 86, 19, 103, 183, 205, 212, 16, 244, 73, 20, 138, 15, 23, 11, 96, 61, 98, 242, 65, 223, 176, 164, 98>> @@
    <<1, 1, 1, 84>> :>
        <<87, 35, 238, 243, 250, 63, 146, 15, 57, 78, 236, 192, 56, 78, 227, 101, 230, 51, 226, 97, 90, 243, 200, 25, 81, 186, 128, 118, 131, 155, 9, 233>> @@
    <<1, 1, 1, 1>> :>
        <<39, 236, 208, 165, 152, 231, 111, 138, 47, 210, 100, 212, 39, 223, 10, 17, 153, 3, 232, 234, 227, 132, 228, 120, 144, 37, 65, 117, 111, 8, 157, 209>> @@
    <<255>> :>
        <<168, 16, 10, 230, 170, 25, 64, 208, 182, 99, 187, 49, 205, 70, 97, 66, 235, 189, 189, 81, 135, 19, 27, 146, 217, 56, 24, 152, 120, 50, 235, 137>> @@
    <<255, 255>> :>
        <<202, 47, 208, 15, 160, 1, 25, 7, 68, 193, 92, 49, 118, 67, 171, 9, 46, 112, 72, 206, 8, 106, 36, 62, 43, 233, 67, 124, 137, 141, 225, 187>> @@
    <<255, 255, 255>> :>
        <<90, 231, 230, 164, 35, 4, 220, 110, 65, 118, 33, 11, 131, 196, 48, 36, 249, 154, 11, 206, 154, 135, 12, 59, 109, 44, 149, 252, 142, 191, 183, 76>> @@
    <<255, 255, 255, 255>> :>
        <<173, 149, 19, 27, 192, 183, 153, 192, 177, 175, 71, 127, 177, 79, 207, 38, 166, 169, 247, 96, 121, 228, 139, 240, 144, 172, 183, 232, 54, 123, 253, 14>>

\* RgFModuleUpdater::calculateSHA256
calculateSHA256(data) ==
    IF data \in DOMAIN SHA256Table THEN SHA256Table[data] ELSE sha256_digest(data)

\* a comparison that stops after the first digest byte
validateSHA256Hash_firstByte(data, expectedHash) ==
    calculateSHA256(data)[1] = expectedHash[1]

\* RgFModuleUpdater::validateSHA256Hash: memcmp of the 32 digest bytes
validateSHA256Hash(data, expectedHash) ==
    \A i \in 1..32 : calculateSHA256(data)[i] = expectedHash[i]

HexDigits == <<"0", "1", "2", "3", "4", "5", "6", "7", "8", "9", "a", "b", "c", "d", "e", "f">>
\* RgFModuleUpdater::sha256ToString: two lower-case hex digits per byte
sha256ToString(hash) ==
    [i \in 1..64 |-> LET byte == hash[(i + 1) \div 2]
                     IN HexDigits[(IF i % 2 = 1 THEN byte \div 16 ELSE byte % 16) + 1]]

(***************************************************************************)
(* State                                                                   *)
(*   build    which FlashTxx.c is linked: ABLSModule/FlashTxx.c ("Local")  *)
(*            or ABLSModule/FlasherX/FlashTxx.c ("FlasherX")               *)
(*   role     ModuleConfig::getRole()                                      *)
(*   millis   the millisecond clock                                        *)
(*   flash    the program flash, indexed by offset from FLASH_BASE_ADDR    *)
(*   pc       where the firmware is: "idle" between handlers, a step name  *)
(*            inside a workflow, "dead" when no image can boot             *)
(*   wf       the locals of the running workflow                           *)
(*   one record per class, holding its static members                      *)
(*   firmwareHash    the FirmwareHash of the last START_UPDATE that passed *)
(*                   the checks of handleStartUpdateCommand                *)
(*   statusResponse  the last status packet handed to the socket           *)
(*   networkLog      the last event that NetworkManager logged             *)
(*   caller   the arguments and results of the application code that calls *)
(*            the side-effect free functions of the managers               *)
(***************************************************************************)
VARIABLES build, role, millis, flash, pc, wf,
          RgFModuleUpdater, VersionManager, UpdateSafetyManager,
          OTAUpdateManager, FlashBackupManager, NetworkManager,
          firmwareHash, statusResponse, networkLog, caller

vars == <<build, role, millis, flash, pc, wf, RgFModuleUpdater, VersionManager,
          UpdateSafetyManager, OTAUpdateManager, FlashBackupManager, NetworkManager,
          firmwareHash, statusResponse, networkLog, caller>>

Builds == {"Local", "FlasherX"}

\* the application code has called nothing yet
NoCaller == [fn |-> "", args |-> << >>, result |-> << >>]

\* FirmwareInfo _newFirmwareInfo = {0}
NoFirmwareInfo ==
    [size |-> 0, crc32 |-> <<0, 0>>, sha256_hash |-> Zeros(32),
     version |-> <<0, 0, 0>>, target_id |-> << >>]

NoWorkflow == [data |-> << >>, i |-> 0, op |-> ""]

(***************************************************************************)
(* Flash primitives                                                        *)
(***************************************************************************)
\* result of a hardware erase or program operation: 0, or an error code.
\* ABLSModule/FlashTxx.c returns 0 always; FlasherX returns what the core's
\* eeprom_erase_sector / eeprom_write_block returns.
HwResults == IF build = "Local" THEN {0} ELSE {0, 1}

\* memcpy from memory-mapped flash
readFlashBlock(f, address, size) == [k \in 1..size |-> f[address + k - 1 - FLASH_BASE_ADDR]]

\* eeprom_write_block(buf, addr, len): the bytes that fall inside the flash
\* are programmed, addresses outside it are not flash
eeprom_write_block(f, addr, buf) ==
    [o \in DOMAIN f |->
        LET a == FLASH_BASE_ADDR + o
        IN IF a >= addr /\ a < addr + Len(buf) THEN buf[a - addr + 1] ELSE f[o]]

\* one sector, starting at sector_addr, filled with 0xFF
EraseSectorAt(f, sector_addr) ==
    [o \in DOMAIN f |->
        LET a == FLASH_BASE_ADDR + o
        IN IF a >= sector_addr /\ a < sector_addr + FLASH_SECTOR_SIZE THEN ERASED ELSE f[o]]

\* flash_erase_sector(address); hw is the result of the hardware operation
flash_erase_sector(f, address, hw) ==
    IF build = "Local"
    THEN [f |-> EraseSectorAt(f, AlignDown(address)), err |-> 0]
    ELSE [f |-> IF hw = 0 THEN EraseSectorAt(f, AlignDown(address)) ELSE f, err |-> hw]

\* the address that flash_write_block(offset, buf, len) hands to
\* eeprom_write_block
flash_write_address(offset) == IF build = "Local" THEN FLASH_BASE_ADDR + offset ELSE offset

\* flash_write_block(offset, buf, len): Local adds FLASH_BASE_ADDR to its
\* first argument, FlasherX uses it as the address
flash_write_block(f, offset, buf, hw) ==
    IF build = "Local"
    THEN [f |-> eeprom_write_block(f, flash_write_address(offset), buf), err |-> 0]
    ELSE [f |-> IF hw = 0 THEN eeprom_write_block(f, flash_write_address(offset), buf) ELSE f,
          err |-> hw]

\* the first n sectors from addr erased
RECURSIVE EraseSectors(_, _, _)
EraseSectors(f, addr, n) ==
    IF n = 0 THEN f
    ELSE EraseSectorAt(EraseSectors(f, addr, n - 1), addr + ((n - 1) * FLASH_SECTOR_SIZE))

\* where firmware_buffer_init puts the buffer, and how large it is
BufferAddr ==
    IF build = "Local" THEN AlignUp(etext)
    ELSE FLASH_BASE_ADDR + AlignUp(etext - FLASH_BASE_ADDR)
BufferSize ==
    IF build = "Local" THEN FIRMWARE_MAX_SIZE
    ELSE ((FLASH_SIZE - FLASH_RESERVE - AlignUp(etext - FLASH_BASE_ADDR)) \div FLASH_SECTOR_SIZE)
         * FLASH_SECTOR_SIZE
BufferSectors ==
    IF build = "Local" THEN (BufferSize + FLASH_SECTOR_SIZE - 1) \div FLASH_SECTOR_SIZE
    ELSE BufferSize \div FLASH_SECTOR_SIZE

\* the erase of the buffer may fail at sector failAt; BufferSectors means
\* that no erase fails
InitFailPoints == IF build = "Local" THEN {BufferSectors} ELSE 0..BufferSectors

\* firmware_buffer_init(&buffer_addr, &buffer_size): Local assigns the two
\* outputs after the erase loop, FlasherX before it, so that FlasherX leaves
\* them assigned when an erase fails
firmware_buffer_init(f, old_addr, old_size, failAt) ==
    [f |-> EraseSectors(f, BufferAddr, failAt),
     err |-> IF failAt < BufferSectors THEN 1 ELSE 0,
     buffer_addr |-> IF build = "FlasherX" \/ failAt = BufferSectors THEN BufferAddr ELSE old_addr,
     buffer_size |-> IF build = "FlasherX" \/ failAt = BufferSectors THEN BufferSize ELSE old_size]

\* firmware_buffer_free(buffer_addr, buffer_size): the erase results are
\* not looked at; Local rounds the sector count up, FlasherX down
firmware_buffer_free(f, buffer_addr, buffer_size) ==
    EraseSectors(f, buffer_addr,
                 IF build = "Local"
                 THEN (buffer_size + FLASH_SECTOR_SIZE - 1) \div FLASH_SECTOR_SIZE
                 ELSE buffer_size \div FLASH_SECTOR_SIZE)

\* check_flash_id(addr, size): the set of results the build can produce.
\* Local evaluates size - id_len in uint32_t: for size < id_len the loop
\* bound wraps and the scan leaves the region, so either result is possible.
check_flash_id(f, addr, size) ==
    IF build = "Local" /\ size < Len(FLASH_ID)
    THEN {TRUE, FALSE}
    ELSE {\E i \in 0..(size - Len(FLASH_ID)) :
              readFlashBlock(f, addr + i, Len(FLASH_ID)) = FLASH_ID}

(***************************************************************************)
(* RgFModuleUpdater: helpers                                               *)
(***************************************************************************)
setStatus(u, status) == [u EXCEPT !._status = status]
setError(u, error) == [u EXCEPT !._lastError = error, !._status = "UPDATE_FAILED"]
updateProgress(u, progress) == [u EXCEPT !._progress = progress]

\* freeFlashBuffer(): the updater's record and the flash after the call
freeFlashBuffer(u, f) ==
    IF u._flashBuffer # 0
    THEN [u |-> [u EXCEPT !._flashBuffer = 0, !._flashBufferSize = 0],
          f |-> firmware_buffer_free(f, u._flashBuffer, u._flashBufferSize)]
    ELSE [u |-> u, f |-> f]

\* parseFirmwareHeader(data, size): size, CRC32 and SHA-256 are taken from
\* the data itself; the target id and the version are constants
parseFirmwareHeader(data) ==
    [size |-> Len(data), crc32 |-> calculateCRC32(data), sha256_hash |-> calculateSHA256(data),
     version |-> <<1, 0, 0>>, target_id |-> FLASH_ID]

\* an integrity check in which a CRC32 mismatch fails the image
validateFirmwareIntegrity_crcFails(data, info) ==
    IF ~validateSHA256Hash(data, info.sha256_hash)
    THEN [ok |-> FALSE, log |-> "LOG_ERROR"]
    ELSE IF calculateCRC32(data) # info.crc32
         THEN [ok |-> FALSE, log |-> "LOG_WARNING"]
         ELSE [ok |-> TRUE, log |-> "LOG_INFO"]

\* validateFirmwareIntegrity(data, size) against _newFirmwareInfo: what it
\* returns and the level of the most severe message it logs
validateFirmwareIntegrity_result(data, info) ==
    IF ~validateSHA256Hash(data, info.sha256_hash)
    THEN [ok |-> FALSE, log |-> "LOG_ERROR"]
    ELSE IF calculateCRC32(data) # info.crc32
         THEN [ok |-> TRUE, log |-> "LOG_WARNING"]
         ELSE [ok |-> TRUE, log |-> "LOG_INFO"]

\* validateFirmwareIntegrity: the SHA-256 decides, a CRC32 mismatch is logged
validateFirmwareIntegrity(data, info) == validateFirmwareIntegrity_result(data, info).ok

EXPECTED_TARGET_ID == FLASH_ID
validateFirmwareCompatibility(info) == info.target_id = EXPECTED_TARGET_ID

\* RgFModuleUpdater::performSafetyChecks()
performSafetyChecks == TRUE

\* RgFModuleUpdater::createBackup(): logs "not yet implemented", copies nothing
createBackup(f) == [f |-> f, ok |-> TRUE]

\* a failing step that records its error and lets the workflow go on
StepFails_goesOn(u, f, error) ==
    /\ RgFModuleUpdater' = setError(u, error)
    /\ flash' = f
    /\ pc' = IF pc = "download" THEN "validate" ELSE IF pc = "validate" THEN "flash"
             ELSE IF pc = "flash" THEN "erase" ELSE IF pc = "erase" THEN "write"
             ELSE IF pc = "write" THEN "verify" ELSE "finish"
    /\ wf' = [wf EXCEPT !.i = 0]

\* a step of performUpdateFromBuffer has failed after step 1: the error is
\* set, the buffer freed, and the workflow returns false
StepFails(u, f, error) ==
    LET r == freeFlashBuffer(setError(u, error), f)
    IN /\ RgFModuleUpdater' = r.u
       /\ flash' = r.f
       /\ pc' = "idle"
       /\ wf' = NoWorkflow

others == <<build, role, millis, VersionManager, UpdateSafetyManager,
            OTAUpdateManager, FlashBackupManager, NetworkManager,
            firmwareHash, statusResponse, networkLog,
    caller>>

(***************************************************************************)
(* RgFModuleUpdater: operations                                            *)
(***************************************************************************)
initialize ==
    /\ pc = "idle"
    /\ RgFModuleUpdater' =
          IF RgFModuleUpdater._initialized THEN RgFModuleUpdater
          ELSE setStatus([RgFModuleUpdater EXCEPT !._initialized = TRUE], "UPDATE_IDLE")
    /\ UNCHANGED <<flash, pc, wf, others>>

\* performUpdateFromBuffer(data, size), step 1: createFlashBuffer()
createFlashBuffer(data, failAt) ==
    /\ pc = "idle"
    /\ IF ~RgFModuleUpdater._initialized
       THEN /\ RgFModuleUpdater' = setError(RgFModuleUpdater, "BUFFER_INIT_FAILED")
            /\ UNCHANGED <<flash, pc, wf>>
       ELSE LET freed == freeFlashBuffer(RgFModuleUpdater, flash)
                u1 == updateProgress(setStatus(freed.u, "UPDATE_DOWNLOADING"), 10)
                r == firmware_buffer_init(freed.f, u1._flashBuffer, u1._flashBufferSize, failAt)
                u2 == [u1 EXCEPT !._flashBuffer = r.buffer_addr,
                                 !._flashBufferSize = r.buffer_size]
            IN /\ flash' = r.f
               /\ IF r.err # 0
                  THEN /\ RgFModuleUpdater' = setError(u2, "BUFFER_INIT_FAILED")
                       /\ UNCHANGED <<pc, wf>>
                  ELSE /\ RgFModuleUpdater' = updateProgress(u2, 20)
                       /\ pc' = "download"
                       /\ wf' = [NoWorkflow EXCEPT !.data = data]
    /\ UNCHANGED others

\* step 2: downloadFirmwareFromBuffer(data, size)
downloadFirmwareFromBuffer(hw) ==
    /\ pc = "download"
    /\ LET u == RgFModuleUpdater
           size == Len(wf.data)
       IN IF ~u._initialized \/ u._flashBuffer = 0
          THEN StepFails(u, flash, "DOWNLOAD_FAILED")
          ELSE IF size > u._flashBufferSize
          THEN StepFails(u, flash, "INSUFFICIENT_SPACE")
          ELSE LET u1 == updateProgress(setStatus(u, "UPDATE_DOWNLOADING"), 30)
                   w == flash_write_block(flash, u1._flashBuffer, wf.data, hw)
               IN IF w.err # 0
                  THEN StepFails(u1, w.f, "DOWNLOAD_FAILED")
                  ELSE /\ RgFModuleUpdater' =
                             updateProgress([u1 EXCEPT !._newFirmwareInfo = parseFirmwareHeader(wf.data)], 50)
                       /\ flash' = w.f
                       /\ pc' = "validate"
                       /\ UNCHANGED wf
    /\ UNCHANGED others

\* step 3: validateFirmware()
validateFirmware(idFound) ==
    /\ pc = "validate"
    /\ LET u == RgFModuleUpdater
       IN IF u._flashBuffer = 0
          THEN StepFails(u, flash, "VALIDATION_FAILED")
          ELSE LET u1 == updateProgress(setStatus(u, "UPDATE_VERIFYING"), 60)
                   info == u1._newFirmwareInfo
                   firmwareData == readFlashBlock(flash, u1._flashBuffer, info.size)
               IN /\ idFound \in check_flash_id(flash, u1._flashBuffer, info.size)
                  /\ IF /\ validateFirmwareIntegrity(firmwareData, info)
                        /\ validateFirmwareCompatibility(info)
                        /\ idFound
                     THEN /\ RgFModuleUpdater' = updateProgress(u1, 70)
                          /\ pc' = "flash"
                          /\ UNCHANGED <<flash, wf>>
                     ELSE StepFails(u1, flash, "VALIDATION_FAILED")
    /\ UNCHANGED others

\* step 4: flashFirmware(), up to the start of the erase loop
flashFirmware ==
    /\ pc = "flash"
    /\ LET u == RgFModuleUpdater
       IN IF u._flashBuffer = 0 \/ u._newFirmwareInfo.size = 0
          THEN StepFails(u, flash, "FLASH_FAILED")
          ELSE LET u1 == updateProgress(setStatus(u, "UPDATE_FLASHING"), 80)
               IN IF ~performSafetyChecks
                  THEN StepFails(u1, flash, "SAFETY_CHECK_FAILED")
                  ELSE /\ RgFModuleUpdater' = u1
                       /\ flash' = createBackup(flash).f
                       /\ pc' = "erase"
                       /\ wf' = [wf EXCEPT !.i = 0]
    /\ UNCHANGED others

\* a sector count that is one too many for images that end on a sector boundary
sectorsToErase_oneMore(size) == (size \div FLASH_SECTOR_SIZE) + 1

sectorsToErase(size) == (size + FLASH_SECTOR_SIZE - 1) \div FLASH_SECTOR_SIZE

\* flashFirmware(): one pass of the loop that erases the current bank
flashFirmware_erase(hw) ==
    /\ pc = "erase"
    /\ LET u == RgFModuleUpdater
           sectorAddr == FLASH_BASE_ADDR + (wf.i * FLASH_SECTOR_SIZE)
           e == flash_erase_sector(flash, sectorAddr, hw)
       IN IF e.err # 0
          THEN StepFails(u, e.f, "FLASH_FAILED")
          ELSE /\ flash' = e.f
               /\ wf' = [wf EXCEPT !.i = IF wf.i + 1 < sectorsToErase(u._newFirmwareInfo.size)
                                         THEN wf.i + 1 ELSE 0]
               /\ pc' = IF wf.i + 1 < sectorsToErase(u._newFirmwareInfo.size)
                        THEN "erase" ELSE "write"
               /\ UNCHANGED RgFModuleUpdater
    /\ UNCHANGED others

\* a copy loop that reports the percentage of the flash step alone
flashFirmware_write_stepPercent(hw) ==
    /\ pc = "write"
    /\ LET u == RgFModuleUpdater
           size == u._newFirmwareInfo.size
           bytesFlashed == wf.i
           currentChunk == Min(size - bytesFlashed, CHUNK_SIZE)
           chunkData == readFlashBlock(flash, u._flashBuffer + bytesFlashed, currentChunk)
           w == flash_write_block(flash, FLASH_BASE_ADDR + bytesFlashed, chunkData, hw)
           flashed == bytesFlashed + currentChunk
           flashProgress == ((100 * flashed) \div size) % 256
       IN IF w.err # 0
          THEN StepFails(u, w.f, "FLASH_FAILED")
          ELSE /\ flash' = w.f
               /\ IF flashed < size
                  THEN /\ RgFModuleUpdater' = updateProgress(u, flashProgress)
                       /\ wf' = [wf EXCEPT !.i = flashed]
                       /\ pc' = "write"
                  ELSE /\ RgFModuleUpdater' = updateProgress(u, 90)
                       /\ wf' = [wf EXCEPT !.i = 0]
                       /\ pc' = "verify"
    /\ UNCHANGED others

\* flashFirmware(): one pass of the loop that copies a chunk from the buffer
\* to the current bank; wf.i is bytesFlashed
flashFirmware_write(hw) ==
    /\ pc = "write"
    /\ LET u == RgFModuleUpdater
           size == u._newFirmwareInfo.size
           bytesFlashed == wf.i
           currentChunk == Min(size - bytesFlashed, CHUNK_SIZE)
           chunkData == readFlashBlock(flash, u._flashBuffer + bytesFlashed, currentChunk)
           w == flash_write_block(flash, FLASH_BASE_ADDR + bytesFlashed, chunkData, hw)
           flashed == bytesFlashed + currentChunk
           flashProgress == (80 + ((10 * flashed) \div size)) % 256
       IN IF w.err # 0
          THEN StepFails(u, w.f, "FLASH_FAILED")
          ELSE /\ flash' = w.f
               /\ IF flashed < size
                  THEN /\ RgFModuleUpdater' = updateProgress(u, flashProgress)
                       /\ wf' = [wf EXCEPT !.i = flashed]
                       /\ pc' = "write"
                  ELSE /\ RgFModuleUpdater' = updateProgress(u, 90)
                       /\ wf' = [wf EXCEPT !.i = 0]
                       /\ pc' = "verify"
    /\ UNCHANGED others

\* step 5: verifyFirmware()
verifyFirmware(idFound) ==
    /\ pc = "verify"
    /\ LET u1 == setStatus(RgFModuleUpdater, "UPDATE_VERIFYING")
       IN /\ idFound \in check_flash_id(flash, FLASH_BASE_ADDR, u1._newFirmwareInfo.size)
          /\ IF idFound
             THEN /\ RgFModuleUpdater' = updateProgress(u1, 95)
                  /\ pc' = "finish"
                  /\ UNCHANGED <<flash, wf>>
             ELSE StepFails(u1, flash, "VERIFICATION_FAILED")
    /\ UNCHANGED others

\* step 6: the buffer is freed and the status becomes Success
performUpdateFromBuffer_finish ==
    /\ pc = "finish"
    /\ LET r == freeFlashBuffer(RgFModuleUpdater, flash)
       IN /\ RgFModuleUpdater' = updateProgress(setStatus(r.u, "UPDATE_SUCCESS"), 100)
          /\ flash' = r.f
    /\ pc' = "idle"
    /\ wf' = NoWorkflow
    /\ UNCHANGED others

\* RgFModuleUpdater::performUpdate(firmwareUrl): the download from a URL is
\* not implemented
performUpdate(u) == setError(u, "NETWORK_ERROR")

(***************************************************************************)
(* RgFModuleUpdater: the download over HTTP.  A caller may also run the    *)
(* public steps on their own; createFlashBuffer() then leaves the workflow *)
(* position alone.                                                         *)
(***************************************************************************)
\* createFlashBuffer() called on its own
createFlashBuffer_call(failAt) ==
    /\ pc = "idle"
    /\ IF ~RgFModuleUpdater._initialized
       THEN /\ RgFModuleUpdater' = setError(RgFModuleUpdater, "BUFFER_INIT_FAILED")
            /\ UNCHANGED flash
       ELSE LET freed == freeFlashBuffer(RgFModuleUpdater, flash)
                u1 == updateProgress(setStatus(freed.u, "UPDATE_DOWNLOADING"), 10)
                r == firmware_buffer_init(freed.f, u1._flashBuffer, u1._flashBufferSize, failAt)
                u2 == [u1 EXCEPT !._flashBuffer = r.buffer_addr,
                                 !._flashBufferSize = r.buffer_size]
            IN /\ flash' = r.f
               /\ RgFModuleUpdater' = IF r.err # 0 THEN setError(u2, "BUFFER_INIT_FAILED")
                                      ELSE updateProgress(u2, 20)
    /\ UNCHANGED <<pc, wf, others>>

\* a URL as parseHttpUrl() splits it: what precedes the host, and the host
HttpUrl(scheme, host) == [scheme |-> scheme, host |-> host]
DownloadUrls == {HttpUrl("http://", "10.0.0.5"), HttpUrl("https://", "10.0.0.5"),
                 HttpUrl("http://", "")}

\* parseHttpUrl(url, host, port, path)
parseHttpUrl(url) == url.scheme = "http://" /\ url.host # ""

\* a header line as the parser looks at it: the text it starts with and the
\* number that toInt() reads behind it; the empty line ends the headers
HeaderLine(prefix, value) == [prefix |-> prefix, value |-> value]
BlankLine == HeaderLine("", 0)

\* the most body bytes that are available to the read loop
MaxBodyBytes == 3
\* the status lines, the declared lengths and the header blocks a server sends
StatusLines ==
    {HeaderLine("HTTP/1.1 ", 200), HeaderLine("HTTP/1.1 ", 404),
     HeaderLine("HTTP/1.0 ", 200), HeaderLine("HTTP/1.0 ", 404)}
DeclaredLengths == {0, 1, 2, FIRMWARE_MAX_SIZE + 1}
HeaderBlocks ==
    {<<s, HeaderLine("Content-Length:", n), BlankLine>> : s \in StatusLines, n \in DeclaredLengths}
    \cup {<<HeaderLine("HTTP/1.1 ", 200), BlankLine>>,
          <<HeaderLine("HTTP/1.1 ", 200), HeaderLine("Content-Length:", 2)>>}

\* what the server does: whether the connection is made, whether anything
\* arrives within the 10 s, the header lines, and the body bytes available
HttpResponses ==
    [url : DownloadUrls, connects : BOOLEAN, answers : BOOLEAN, lines : HeaderBlocks,
     body : 0..MaxBodyBytes]

\* the loop over the header lines, from line i on
RECURSIVE parseHeaders(_, _, _)
parseHeaders(lines, i, contentLength) ==
    IF i > Len(lines) THEN [err |-> FALSE, contentLength |-> contentLength]
    ELSE IF lines[i] = BlankLine THEN [err |-> FALSE, contentLength |-> contentLength]
    ELSE IF lines[i].prefix = "Content-Length:"
    THEN parseHeaders(lines, i + 1, lines[i].value)
    ELSE IF lines[i].prefix = "HTTP/1.1 " /\ lines[i].value # 200
    THEN [err |-> TRUE, contentLength |-> contentLength]
    ELSE parseHeaders(lines, i + 1, contentLength)

\* RgFModuleUpdater::downloadFirmware(url): the updater's record after the
\* call and the value returned.  The body bytes are stored through a pointer
\* into the memory-mapped flash, which does not program it; size, CRC32 and
\* SHA-256 are taken from what the buffer holds afterwards.
downloadFirmware_result(u, f, response) ==
    LET failed(x) == [u |-> setError(x, "DOWNLOAD_FAILED"), ok |-> FALSE]
        u1 == updateProgress(setStatus(u, "UPDATE_DOWNLOADING"), 30)
        u2 == updateProgress(u1, 40)
        h == parseHeaders(response.lines, 1, -1)
        contentLength == h.contentLength
        u3 == updateProgress(u2, 50)
        bytesRead == Min(response.body, contentLength)
        u4 == IF bytesRead > 0
              THEN updateProgress(u3, 50 + ((30 * bytesRead) \div contentLength))
              ELSE u3
        firmwareData == readFlashBlock(f, u4._flashBuffer, bytesRead)
        info == [u4._newFirmwareInfo EXCEPT !.size = bytesRead,
                                            !.crc32 = calculateCRC32(firmwareData),
                                            !.sha256_hash = calculateSHA256(firmwareData)]
    IN IF ~u._initialized \/ u._flashBuffer = 0 THEN failed(u)
       ELSE IF ~parseHttpUrl(response.url) \/ ~response.connects THEN failed(u1)
       ELSE IF ~response.answers \/ h.err THEN failed(u2)
       ELSE IF contentLength <= 0 \/ contentLength > u2._flashBufferSize THEN failed(u2)
       ELSE IF bytesRead # contentLength THEN failed(u4)
       ELSE [u |-> updateProgress([u4 EXCEPT !._newFirmwareInfo = info], 80), ok |-> TRUE]

downloadFirmware(response) ==
    /\ pc = "idle"
    /\ RgFModuleUpdater' = downloadFirmware_result(RgFModuleUpdater, flash, response).u
    /\ UNCHANGED <<flash, pc, wf, others>>

\* unsigned long comparison of two uint32_t values held as 16-bit halves
WGreater(x, y) == x[1] > y[1] \/ (x[1] = y[1] /\ x[2] > y[2])

\* the wait for the response: 10000 ms, polled with delay(10)
ResponseTimeout == 10000
PollDelay == 10
\* the passes of the wait loop that are followed
MaxWaitPasses == 1003

\* millis() at the call, as uint32_t: just after the boot, 10000 ms before
\* the largest value, and at the largest value, after 49.7 days of uptime
StartClocks == {<<0, 0>>, <<65535, 65535 - ResponseTimeout>>, <<65535, 65535>>}

\* downloadFirmware(url) up to the wait for the response, for a server that
\* accepts the connection and never sends a byte; start is millis() at the
\* assignment of timeout.  wf.data holds millis() and timeout as uint32_t,
\* wf.i the passes of the loop so far.
downloadFirmware_request(start) ==
    /\ pc = "idle"
    /\ RgFModuleUpdater._initialized
    /\ RgFModuleUpdater._flashBuffer # 0
    /\ RgFModuleUpdater' =
          updateProgress(updateProgress(setStatus(RgFModuleUpdater, "UPDATE_DOWNLOADING"), 30), 40)
    /\ pc' = "http_wait"
    /\ wf' = [NoWorkflow EXCEPT !.op = "wait",
                                !.data = start \o WAdd(start, <<0, ResponseTimeout>>)]
    /\ UNCHANGED <<flash, others>>

\* one pass of `while (client.available() == 0)`: nothing is available;
\* past the timeout the call returns false, otherwise delay(10)
downloadFirmware_wait ==
    /\ pc = "http_wait"
    /\ wf.i < MaxWaitPasses
    /\ LET now == <<wf.data[1], wf.data[2]>>
           timeout == <<wf.data[3], wf.data[4]>>
       IN IF WGreater(now, timeout)
          THEN /\ RgFModuleUpdater' = setError(RgFModuleUpdater, "DOWNLOAD_FAILED")
               /\ pc' = "idle"
               /\ wf' = NoWorkflow
          ELSE /\ wf' = [wf EXCEPT !.i = @ + 1,
                                   !.data = WAdd(now, <<0, PollDelay>>) \o timeout]
               /\ UNCHANGED <<RgFModuleUpdater, pc>>
    /\ UNCHANGED <<flash, others>>

(***************************************************************************)
(* Power                                                                   *)
(***************************************************************************)
\* the images that are complete firmware for this target
CompleteImages == {FactoryImage} \cup {img \in Images : \E k \in 1..Len(img) : img[k] = FLASH_ID[1]}

\* the bank at base starts with a complete image
HoldsImage(f, base) ==
    \E img \in CompleteImages : readFlashBlock(f, base, Len(img)) = img

\* the static members as the C++ initializers leave them
RgFModuleUpdaterStatics ==
    [_initialized |-> FALSE, _flashBuffer |-> 0, _flashBufferSize |-> 0, _hasBackup |-> FALSE,
     _status |-> "UPDATE_IDLE", _lastError |-> "NONE", _progress |-> 0,
     _newFirmwareInfo |-> NoFirmwareInfo]

(***************************************************************************)
(* VersionManager: the update session status                               *)
(***************************************************************************)
VersionManagerStatics == [_updateStatus |-> "UPDATE_IDLE", _updateProgress |-> 0, _updateError |-> ""]

setUpdateStatus(v, status, progress) ==
    [v EXCEPT !._updateStatus = status, !._updateProgress = progress]

\* the error text is stored, then the status becomes Failed with progress 0
setUpdateError(v, error) ==
    setUpdateStatus([v EXCEPT !._updateError = error], "UPDATE_FAILED", 0)

reportUpdateProgress(v, status, progress) == setUpdateStatus(v, status, progress)

UpdateStatus_t ==
    {"UPDATE_IDLE", "UPDATE_DOWNLOADING", "UPDATE_VERIFYING", "UPDATE_FLASHING",
     "UPDATE_REBOOTING", "UPDATE_SUCCESS", "UPDATE_FAILED", "UPDATE_ROLLBACK"}

(***************************************************************************)
(* UpdateSafetyManager.  Speeds are in mm/s and voltages in mV.            *)
(***************************************************************************)
UpdateSafetyManagerStatics ==
    [_currentMode |-> "UPDATE_MODE_NORMAL", _updateModeActive |-> FALSE,
     _lastSafetyResult |-> "SAFETY_OK", _stationarySpeedThreshold |-> 100,
     _hydraulicIdleTimeout |-> 5000, _minimumVoltage |-> 11500,
     _lastMotionTime |-> 0, _lastHydraulicActivity |-> 0, _lastSafetyCheck |-> 0,
     _currentSpeed |-> 0, _currentVoltage |-> 12000]

_safetyCheckInterval == 1000

\* checkGPSSpeed(): the speed is assumed to be 0 and the GPS data available
checkGPSSpeed(s) == [s |-> [s EXCEPT !._currentSpeed = 0], ok |-> TRUE]

\* checkPowerStatus(): the voltage is a placeholder of 12.5 V
checkPowerStatus(s) ==
    LET s1 == [s EXCEPT !._currentVoltage = 12500]
    IN [s |-> s1, ok |-> s1._currentVoltage >= s1._minimumVoltage]

\* checkHydraulicStatus(): idle for at least the timeout
checkHydraulicStatus(s, now) == now - s._lastHydraulicActivity >= s._hydraulicIdleTimeout

checkCriticalOperations == TRUE

isSystemStationary(s, now) ==
    LET g == checkGPSSpeed(s)
        isStationary == g.s._currentSpeed <= g.s._stationarySpeedThreshold
    IN IF ~g.ok THEN [s |-> g.s, ok |-> FALSE]
       ELSE IF ~isStationary THEN [s |-> [g.s EXCEPT !._lastMotionTime = now], ok |-> FALSE]
       ELSE [s |-> g.s, ok |-> TRUE]

areHydraulicsIdle(s, now, moduleRole) ==
    IF moduleRole # "MODULE_CENTRE" THEN TRUE ELSE checkHydraulicStatus(s, now)

\* a validity check that takes a speed of exactly 0 for missing GPS data
isGPSDataValid_zeroIsMissing(s) ==
    LET g == checkGPSSpeed(s) IN [s |-> g.s, ok |-> g.ok /\ g.s._currentSpeed > 0]

isGPSDataValid(s) == checkGPSSpeed(s)

isPowerSufficient(s) == checkPowerStatus(s)

\* the gate's outcome: the manager's record after the call and the result
GateResult(s, result) == [s |-> [s EXCEPT !._lastSafetyResult = result], result |-> result]

\* the gate with the power check moved ahead of the motion check
isSafeToUpdate_powerFirst(s, now, moduleRole) ==
    IF s._updateModeActive THEN GateResult(s, "SAFETY_UPDATE_IN_PROGRESS")
    ELSE LET pw == isPowerSufficient(s)
             st == isSystemStationary(pw.s, now)
         IN IF ~pw.ok THEN GateResult(pw.s, "SAFETY_POWER_INSUFFICIENT")
            ELSE IF ~st.ok THEN GateResult(st.s, "SAFETY_SYSTEM_MOVING")
            ELSE IF ~areHydraulicsIdle(st.s, now, moduleRole)
            THEN GateResult(st.s, "SAFETY_HYDRAULICS_ACTIVE")
            ELSE GateResult(st.s, "SAFETY_OK")

\* UpdateSafetyManager::isSafeToUpdate()
isSafeToUpdate(s, now, moduleRole) ==
    IF s._updateModeActive THEN GateResult(s, "SAFETY_UPDATE_IN_PROGRESS")
    ELSE LET st == isSystemStationary(s, now)
         IN IF ~st.ok THEN GateResult(st.s, "SAFETY_SYSTEM_MOVING")
            ELSE IF ~areHydraulicsIdle(st.s, now, moduleRole)
            THEN GateResult(st.s, "SAFETY_HYDRAULICS_ACTIVE")
            ELSE LET gps == isGPSDataValid(st.s)
                 IN IF ~gps.ok THEN GateResult(gps.s, "SAFETY_GPS_UNAVAILABLE")
                    ELSE LET pw == isPowerSufficient(gps.s)
                         IN IF ~pw.ok THEN GateResult(pw.s, "SAFETY_POWER_INSUFFICIENT")
                            ELSE IF ~checkCriticalOperations
                            THEN GateResult(pw.s, "SAFETY_CRITICAL_OPERATION")
                            ELSE GateResult(pw.s, "SAFETY_OK")

\* monitorSafetyDuringUpdate(): Update-in-progress counts as safe
monitorSafetyDuringUpdate(s, now, moduleRole) ==
    LET g == isSafeToUpdate(s, now, moduleRole)
    IN [s |-> g.s, ok |-> g.result \in {"SAFETY_UPDATE_IN_PROGRESS", "SAFETY_OK"}]

emergencyAbortUpdate(s) ==
    [s EXCEPT !._updateModeActive = FALSE, !._currentMode = "UPDATE_MODE_NORMAL"]

\* updateSafetyState(): speed and voltage are refreshed
updateSafetyState(s) == checkPowerStatus(checkGPSSpeed(s).s).s

\* a preparation that finds the systems not ready
prepareForUpdate_notReady(s) ==
    [s |-> [s EXCEPT !._currentMode = "UPDATE_MODE_PREPARING"], ok |-> FALSE]

\* prepareForUpdate(): mode Preparing, a settling delay, always ready
prepareForUpdate(s) == [s |-> [s EXCEPT !._currentMode = "UPDATE_MODE_PREPARING"], ok |-> TRUE]

(***************************************************************************)
(* The clock.  The time a handler spends in delay() passes at the next     *)
(* AdvanceTime; the handlers read the clock only for the comparisons below.*)
(***************************************************************************)
TimeStep == 5000
MaxMillis == 5000

AdvanceTime ==
    /\ pc = "idle"
    /\ millis + TimeStep <= MaxMillis
    /\ millis' = millis + TimeStep
    /\ UNCHANGED <<build, role, flash, pc, wf, RgFModuleUpdater, VersionManager,
                   UpdateSafetyManager, OTAUpdateManager, FlashBackupManager,
                   NetworkManager, firmwareHash, statusResponse, networkLog, caller>>

(***************************************************************************)
(* UpdateSafetyManager: operations                                         *)
(***************************************************************************)
safetyOthers == <<build, role, millis, flash, pc, wf, RgFModuleUpdater, VersionManager,
                  OTAUpdateManager, FlashBackupManager, NetworkManager,
                  firmwareHash, statusResponse, networkLog,
    caller>>

init ==
    /\ pc = "idle"
    /\ UpdateSafetyManager' =
          [UpdateSafetyManager EXCEPT !._currentMode = "UPDATE_MODE_NORMAL",
                                      !._updateModeActive = FALSE,
                                      !._lastSafetyResult = "SAFETY_OK",
                                      !._lastMotionTime = millis,
                                      !._lastHydraulicActivity = millis,
                                      !._lastSafetyCheck = millis]
    /\ UNCHANGED safetyOthers

\* UpdateSafetyManager::update(): the periodic tick
update ==
    /\ pc = "idle"
    /\ LET s == UpdateSafetyManager
           now == millis
       IN IF now - s._lastSafetyCheck >= _safetyCheckInterval
          THEN LET s1 == [updateSafetyState(s) EXCEPT !._lastSafetyCheck = now]
                   m == monitorSafetyDuringUpdate(s1, now, role)
               IN UpdateSafetyManager' =
                     IF s1._updateModeActive
                     THEN IF ~m.ok THEN emergencyAbortUpdate(m.s) ELSE m.s
                     ELSE s1
          ELSE UNCHANGED UpdateSafetyManager
    /\ UNCHANGED safetyOthers

\* a caller evaluates the gate
isSafeToUpdate_call ==
    /\ pc = "idle"
    /\ UpdateSafetyManager' = isSafeToUpdate(UpdateSafetyManager, millis, role).s
    /\ UNCHANGED safetyOthers

\* entering update mode without consulting the gate
enterUpdateMode_ungated ==
    /\ pc = "idle"
    /\ UpdateSafetyManager' =
          [prepareForUpdate(UpdateSafetyManager).s EXCEPT !._currentMode = "UPDATE_MODE_ACTIVE",
                                                          !._updateModeActive = TRUE]
    /\ UNCHANGED safetyOthers

enterUpdateMode ==
    /\ pc = "idle"
    /\ LET g == isSafeToUpdate(UpdateSafetyManager, millis, role)
           p == prepareForUpdate(g.s)
       IN UpdateSafetyManager' =
             IF g.result # "SAFETY_OK" THEN g.s
             ELSE IF ~p.ok THEN p.s
             ELSE [p.s EXCEPT !._currentMode = "UPDATE_MODE_ACTIVE", !._updateModeActive = TRUE]
    /\ UNCHANGED safetyOthers

exitUpdateMode ==
    /\ pc = "idle"
    /\ UpdateSafetyManager' =
          IF ~UpdateSafetyManager._updateModeActive THEN UpdateSafetyManager
          ELSE [UpdateSafetyManager EXCEPT !._currentMode = "UPDATE_MODE_NORMAL",
                                           !._updateModeActive = FALSE]
    /\ UNCHANGED safetyOthers

emergencyAbortUpdate_call ==
    /\ pc = "idle"
    /\ UpdateSafetyManager' = emergencyAbortUpdate(UpdateSafetyManager)
    /\ UNCHANGED safetyOthers

\* the values that each handler assigns to _currentMode, in program order,
\* after the value it finds; the handler's delays lie between them
enterUpdateMode_modes(s, now, moduleRole) ==
    IF isSafeToUpdate(s, now, moduleRole).result # "SAFETY_OK" THEN <<s._currentMode>>
    ELSE <<s._currentMode, "UPDATE_MODE_PREPARING", "UPDATE_MODE_ACTIVE">>

exitUpdateMode_modes(s) ==
    IF ~s._updateModeActive THEN <<s._currentMode>>
    ELSE <<s._currentMode, "UPDATE_MODE_RECOVERY", "UPDATE_MODE_NORMAL">>

emergencyAbortUpdate_modes(s) == <<s._currentMode, "UPDATE_MODE_NORMAL">>

update_modes(s, now, moduleRole) ==
    IF /\ now - s._lastSafetyCheck >= _safetyCheckInterval
       /\ s._updateModeActive
       /\ ~monitorSafetyDuringUpdate(updateSafetyState(s), now, moduleRole).ok
    THEN emergencyAbortUpdate_modes(s)
    ELSE <<s._currentMode>>

\* the thresholds a caller configures: the default and one that fails the check
SpeedThresholds == {100, -100}
MinimumVoltages == {11500, 13000}

setStationarySpeedThreshold(speedMs) ==
    /\ pc = "idle"
    /\ UpdateSafetyManager' = [UpdateSafetyManager EXCEPT !._stationarySpeedThreshold = speedMs]
    /\ UNCHANGED safetyOthers

setMinimumVoltage(minVoltage) ==
    /\ pc = "idle"
    /\ UpdateSafetyManager' = [UpdateSafetyManager EXCEPT !._minimumVoltage = minVoltage]
    /\ UNCHANGED safetyOthers

(***************************************************************************)
(* VersionManager: operations                                              *)
(***************************************************************************)
versionOthers == <<build, role, millis, flash, pc, wf, RgFModuleUpdater, UpdateSafetyManager,
                   OTAUpdateManager, FlashBackupManager, NetworkManager,
                   firmwareHash, statusResponse, networkLog,
    caller>>

\* the progress values a caller reports
Progresses == {0, 50}

setUpdateStatus_call(status, progress) ==
    /\ pc = "idle"
    /\ VersionManager' = setUpdateStatus(VersionManager, status, progress)
    /\ UNCHANGED versionOthers

\* FirmwareVersion_t without the build date and the git hash
FirmwareVersion(major, minor, patch, buildNumber) ==
    [major |-> major, minor |-> minor, patch |-> patch, buildNumber |-> buildNumber]

\* the largest value of a version field
MaxVersionField == 1
Versions ==
    {FirmwareVersion(a, b, c, d) : a \in 0..MaxVersionField, b \in 0..MaxVersionField,
                                   c \in 0..MaxVersionField, d \in 0..MaxVersionField}

\* the comparison without the build number
compareVersions_noBuild(v1, v2) ==
    IF v1.major # v2.major THEN (IF v1.major < v2.major THEN -1 ELSE 1)
    ELSE IF v1.minor # v2.minor THEN (IF v1.minor < v2.minor THEN -1 ELSE 1)
    ELSE IF v1.patch # v2.patch THEN (IF v1.patch < v2.patch THEN -1 ELSE 1)
    ELSE 0

\* VersionManager::compareVersions(v1, v2)
compareVersions(v1, v2) ==
    IF v1.major # v2.major THEN (IF v1.major < v2.major THEN -1 ELSE 1)
    ELSE IF v1.minor # v2.minor THEN (IF v1.minor < v2.minor THEN -1 ELSE 1)
    ELSE IF v1.patch # v2.patch THEN (IF v1.patch < v2.patch THEN -1 ELSE 1)
    ELSE IF v1.buildNumber # v2.buildNumber
    THEN (IF v1.buildNumber < v2.buildNumber THEN -1 ELSE 1)
    ELSE 0

\* VersionManager::isVersionNewer(current, available)
isVersionNewer(current, available) == compareVersions(current, available) < 0

\* VersionManager::areVersionsEqual(v1, v2)
areVersionsEqual(v1, v2) == compareVersions(v1, v2) = 0

callerOthers == <<build, role, millis, flash, pc, wf, RgFModuleUpdater, VersionManager,
                  UpdateSafetyManager, OTAUpdateManager, FlashBackupManager, NetworkManager,
                  firmwareHash, statusResponse, networkLog>>

\* the application holds two versions and compares them
VersionCallers == {[NoCaller EXCEPT !.args = <<v1, v2>>] : v1 \in Versions, v2 \in Versions}

compareVersions_call ==
    /\ caller.args \in Versions \X Versions
    /\ caller' = [caller EXCEPT !.fn = "compareVersions",
                                !.result = <<compareVersions(caller.args[1], caller.args[2])>>]
    /\ UNCHANGED callerOthers

isVersionNewer_call ==
    /\ caller.args \in Versions \X Versions
    /\ caller' = [caller EXCEPT !.fn = "isVersionNewer",
                                !.result = <<isVersionNewer(caller.args[1], caller.args[2])>>]
    /\ UNCHANGED callerOthers

areVersionsEqual_call ==
    /\ caller.args \in Versions \X Versions
    /\ caller' = [caller EXCEPT !.fn = "areVersionsEqual",
                                !.result = <<areVersionsEqual(caller.args[1], caller.args[2])>>]
    /\ UNCHANGED callerOthers

\* the recorded information the integrity check may meet: the header of an
\* image of at most one byte, carrying its own CRC32 or the CRC32 of no data
RecordedInfos ==
    UNION {{[parseFirmwareHeader(d) EXCEPT !.crc32 = crc] :
                crc \in {calculateCRC32(d), calculateCRC32(<< >>)}} :
           d \in {image \in Images : Len(image) <= 1}}

\* the updater holds an image and a recorded FirmwareInfo and checks them
IntegrityCallers == {[NoCaller EXCEPT !.args = <<data, info>>] : data \in Images, info \in RecordedInfos}

validateFirmwareIntegrity_call ==
    \* the caller holds an image and a FirmwareInfo
    /\ Len(caller.args) = 2
    /\ "sha256_hash" \in DOMAIN caller.args[2]
    /\ caller' = [caller EXCEPT
                     !.fn = "validateFirmwareIntegrity",
                     !.result = <<validateFirmwareIntegrity_result(caller.args[1], caller.args[2])>>]
    /\ UNCHANGED callerOthers

(***************************************************************************)
(* NetworkManager: the update command protocol                             *)
(***************************************************************************)
NetworkManagerStatics == [_initialized |-> FALSE, _packetsSent |-> 0, _packetsReceived |-> 0]

\* the counters are uint32_t; the model stops receiving at MaxPackets
MaxPackets == 2

\* sizeof(RgFModuleUpdateCommandPacket)
CommandPacketSize == 372

\* the image that the FirmwareUrl of the commands below serves
ServedImage == <<FLASH_ID[1], 1>>
FirmwareUrl == "http://10.0.0.5:8080/fw.bin"
\* its SHA-256 as 64 hex characters, and the same with one character altered
CorrectHash == sha256ToString(calculateSHA256(ServedImage))
AlteredHash == [CorrectHash EXCEPT ![1] = IF @ = "0" THEN "1" ELSE "0"]

MAX_FIRMWARE_SIZE == 2097152

\* RgFModuleUpdateCommandPacket with its default member initializers
DefaultCommandPacket ==
    [Command |-> "STATUS_QUERY", FirmwareUrl |-> "", FirmwareHash |-> << >>, FirmwareSize |-> 0]

StartUpdatePacket ==
    [Command |-> "START_UPDATE", FirmwareUrl |-> FirmwareUrl, FirmwareHash |-> CorrectHash,
     FirmwareSize |-> Len(ServedImage)]

\* the command packets that arrive
CommandPackets ==
    {DefaultCommandPacket,
     StartUpdatePacket,
     [StartUpdatePacket EXCEPT !.FirmwareHash = AlteredHash],
     [StartUpdatePacket EXCEPT !.FirmwareUrl = ""],
     [StartUpdatePacket EXCEPT !.FirmwareHash = << >>],
     [StartUpdatePacket EXCEPT !.FirmwareSize = 0],
     [StartUpdatePacket EXCEPT !.FirmwareSize = MAX_FIRMWARE_SIZE + 1],
     [DefaultCommandPacket EXCEPT !.Command = "ABORT_UPDATE"],
     [DefaultCommandPacket EXCEPT !.Command = "REBOOT"]}

\* the datagram lengths that arrive: none, short, exact, long
PacketSizes == {0, CommandPacketSize - 1, CommandPacketSize, CommandPacketSize + 1}

\* RgFModuleUpdateStatusPacket with its default member initializers
DefaultStatusPacket ==
    [Status |-> "OPERATIONAL", UpdateProgress |-> 0, UpdateStage |-> "", LastError |-> "",
     PacketsSent |-> 0, PacketsReceived |-> 0]

\* nothing has been sent since the boot
NoStatusPacket == [DefaultStatusPacket EXCEPT !.Status = ""]

\* a status response that leaves the progress out
ModuleStatusPacket_noProgress(n, v) ==
    LET s == v._updateStatus
        p == DefaultStatusPacket
        staged ==
           IF s = "UPDATE_IDLE" THEN p
           ELSE IF s = "UPDATE_FAILED" THEN [p EXCEPT !.Status = "ERROR"]
           ELSE IF s = "UPDATE_SUCCESS" THEN [p EXCEPT !.Status = "OPERATIONAL"]
           ELSE [p EXCEPT !.Status = "UPDATING"]
    IN [staged EXCEPT !.PacketsSent = n._packetsSent, !.PacketsReceived = n._packetsReceived]

\* sendModuleStatusResponse(): the packet it fills in
ModuleStatusPacket(n, v) ==
    LET s == v._updateStatus
        p == DefaultStatusPacket
        staged ==
           CASE s = "UPDATE_IDLE" -> p
             [] s = "UPDATE_DOWNLOADING" ->
                   [p EXCEPT !.Status = "UPDATING", !.UpdateStage = "Downloading firmware",
                             !.UpdateProgress = v._updateProgress]
             [] s = "UPDATE_VERIFYING" ->
                   [p EXCEPT !.Status = "UPDATING", !.UpdateStage = "Verifying firmware",
                             !.UpdateProgress = v._updateProgress]
             [] s = "UPDATE_FLASHING" ->
                   [p EXCEPT !.Status = "UPDATING", !.UpdateStage = "Flashing firmware",
                             !.UpdateProgress = v._updateProgress]
             [] s = "UPDATE_SUCCESS" ->
                   [p EXCEPT !.Status = "OPERATIONAL", !.UpdateStage = "Update completed",
                             !.UpdateProgress = 100]
             [] s = "UPDATE_REBOOTING" ->
                   [p EXCEPT !.Status = "UPDATING", !.UpdateStage = "Rebooting",
                             !.UpdateProgress = 95]
             [] s = "UPDATE_ROLLBACK" ->
                   [p EXCEPT !.Status = "UPDATING", !.UpdateStage = "Rolling back",
                             !.UpdateProgress = 50]
             [] s = "UPDATE_FAILED" ->
                   [p EXCEPT !.Status = "ERROR", !.UpdateStage = "Update failed",
                             !.LastError = "Firmware update failed"]
    IN [staged EXCEPT !.PacketsSent = n._packetsSent, !.PacketsReceived = n._packetsReceived]

\* sendRgFModuleUpdateStatus(packet); sendOk is the result of endPacket()
sendRgFModuleUpdateStatus(n, packet, sendOk) ==
    IF ~n._initialized
    THEN [n |-> n, sent |-> FALSE,
          log |-> "RgFModuleUpdate: Cannot send status - network not initialized"]
    ELSE IF sendOk
    THEN [n |-> [n EXCEPT !._packetsSent = @ + 1], sent |-> TRUE,
          log |-> "RgFModuleUpdate status sent"]
    ELSE [n |-> n, sent |-> FALSE, log |-> "RgFModuleUpdate: Failed to send status packet"]

\* a reader that takes a datagram of any non-zero length for a command
readRgFModuleUpdateCommand_anySize(n, log, packetSize, readOk) ==
    IF ~n._initialized THEN [n |-> n, result |-> 0, log |-> log]
    ELSE IF packetSize = 0 THEN [n |-> n, result |-> 0, log |-> log]
    ELSE IF readOk
    THEN [n |-> [n EXCEPT !._packetsReceived = @ + 1], result |-> packetSize,
          log |-> "RgFModuleUpdate command received"]
    ELSE [n |-> n, result |-> -1, log |-> "RgFModuleUpdate: Failed to read command packet"]

\* a START_UPDATE handler that does not consult the session status
handleStartUpdateCommand_noStatusCheck(command, v, s, u, h, now, moduleRole) ==
    LET g == isSafeToUpdate(s, now, moduleRole)
    IN IF command.FirmwareUrl = ""
       THEN [s |-> s, u |-> u, h |-> h, log |-> "RgFModuleUpdate: Invalid firmware URL"]
       ELSE IF command.FirmwareHash = << >>
       THEN [s |-> s, u |-> u, h |-> h, log |-> "RgFModuleUpdate: Missing firmware hash"]
       ELSE IF command.FirmwareSize = 0
       THEN [s |-> s, u |-> u, h |-> h, log |-> "RgFModuleUpdate: Invalid firmware size"]
       ELSE IF g.result # "SAFETY_OK"
       THEN [s |-> g.s, u |-> u, h |-> h, log |-> "RgFModuleUpdate: System not safe for update"]
       ELSE [s |-> g.s, u |-> performUpdate(u), h |-> command.FirmwareHash,
             log |-> "RgFModuleUpdate: Failed to start firmware update"]

\* readRgFModuleUpdateCommand(&packet): > 0 when a command was read, with
\* the manager's record after the call and what was logged (log is the
\* log as it was before the call).  readOk is whether the socket's read()
\* returned the whole packet.
readRgFModuleUpdateCommand(n, log, packetSize, readOk) ==
    IF ~n._initialized THEN [n |-> n, result |-> 0, log |-> log]
    ELSE IF packetSize = 0 THEN [n |-> n, result |-> 0, log |-> log]
    ELSE IF packetSize # CommandPacketSize
    THEN [n |-> n, result |-> -1, log |-> "RgFModuleUpdate: Invalid command packet size"]
    ELSE IF readOk
    THEN [n |-> [n EXCEPT !._packetsReceived = @ + 1], result |-> CommandPacketSize,
          log |-> "RgFModuleUpdate command received"]
    ELSE [n |-> n, result |-> -1, log |-> "RgFModuleUpdate: Failed to read command packet"]

\* handleStartUpdateCommand(command): the safety manager, the updater and the
\* accepted hash after the call, and what was logged last
handleStartUpdateCommand(command, v, s, u, h, now, moduleRole) ==
    LET g == isSafeToUpdate(s, now, moduleRole)
        updateStarted == FALSE
    IN IF command.FirmwareUrl = ""
       THEN [s |-> s, u |-> u, h |-> h, log |-> "RgFModuleUpdate: Invalid firmware URL"]
       ELSE IF command.FirmwareHash = << >>
       THEN [s |-> s, u |-> u, h |-> h, log |-> "RgFModuleUpdate: Missing firmware hash"]
       ELSE IF command.FirmwareSize = 0
       THEN [s |-> s, u |-> u, h |-> h, log |-> "RgFModuleUpdate: Invalid firmware size"]
       ELSE IF v._updateStatus \notin {"UPDATE_IDLE", "UPDATE_SUCCESS", "UPDATE_FAILED"}
       THEN [s |-> s, u |-> u, h |-> h,
             log |-> "RgFModuleUpdate: Update already in progress - rejecting concurrent update request"]
       ELSE IF g.result # "SAFETY_OK"
       THEN [s |-> g.s, u |-> u, h |-> h, log |-> "RgFModuleUpdate: System not safe for update"]
       ELSE [s |-> g.s, u |-> performUpdate(u), h |-> command.FirmwareHash,
             log |-> IF updateStarted THEN "RgFModuleUpdate: Firmware update started"
                     ELSE "RgFModuleUpdate: Failed to start firmware update"]

\* an ABORT_UPDATE handler that resets the session and leaves update mode
handleAbortUpdateCommand_resets(v, s, u) ==
    [v |-> [v EXCEPT !._updateStatus = "UPDATE_IDLE", !._updateProgress = 0],
     s |-> [s EXCEPT !._currentMode = "UPDATE_MODE_NORMAL", !._updateModeActive = FALSE],
     u |-> u,
     log |-> "RgFModuleUpdate: Update abort not yet implemented"]

\* handleAbortUpdateCommand(): two log lines, nothing else; the session, the
\* safety manager and the updater after the call, and what was logged last
handleAbortUpdateCommand(v, s, u) ==
    [v |-> v, s |-> s, u |-> u, log |-> "RgFModuleUpdate: Update abort not yet implemented"]

networkOthers == <<build, role, millis, flash, pc, wf, OTAUpdateManager, FlashBackupManager,
    caller>>

\* NetworkManager::initialize(); ok is whether Ethernet and the sockets came up
NetworkManager_initialize(ok) ==
    /\ pc = "idle"
    /\ NetworkManager' = IF ok THEN [NetworkManager EXCEPT !._initialized = TRUE]
                         ELSE NetworkManager
    /\ UNCHANGED <<networkOthers, VersionManager, UpdateSafetyManager, RgFModuleUpdater,
                   firmwareHash, statusResponse, networkLog>>

\* NetworkManager::processRgFModuleUpdateCommands(), called by every update():
\* a datagram of packetSize bytes carrying command is waiting (0: none)
processRgFModuleUpdateCommands(packetSize, command, readOk, sendOk) ==
    /\ pc = "idle"
    /\ NetworkManager._packetsReceived < MaxPackets
    /\ NetworkManager._packetsSent < MaxPackets
    /\ LET r == readRgFModuleUpdateCommand(NetworkManager, networkLog, packetSize, readOk)
       IN IF r.result <= 0
          THEN /\ NetworkManager' = r.n
               /\ networkLog' = r.log
               /\ UNCHANGED <<VersionManager, UpdateSafetyManager, RgFModuleUpdater,
                              firmwareHash, statusResponse>>
          ELSE IF command.Command = "STATUS_QUERY"
          THEN LET packet == ModuleStatusPacket(r.n, VersionManager)
                   t == sendRgFModuleUpdateStatus(r.n, packet, sendOk)
               IN /\ NetworkManager' = t.n
                  /\ statusResponse' = IF t.sent THEN packet ELSE statusResponse
                  /\ networkLog' = t.log
                  /\ UNCHANGED <<VersionManager, UpdateSafetyManager, RgFModuleUpdater,
                                 firmwareHash>>
          ELSE IF command.Command = "START_UPDATE"
          THEN LET h == handleStartUpdateCommand(command, VersionManager, UpdateSafetyManager,
                                                 RgFModuleUpdater, firmwareHash, millis, role)
               IN /\ NetworkManager' = r.n
                  /\ UpdateSafetyManager' = h.s
                  /\ RgFModuleUpdater' = h.u
                  /\ firmwareHash' = h.h
                  /\ networkLog' = h.log
                  /\ UNCHANGED <<VersionManager, statusResponse>>
          ELSE IF command.Command = "ABORT_UPDATE"
          THEN LET a == handleAbortUpdateCommand(VersionManager, UpdateSafetyManager,
                                                 RgFModuleUpdater)
               IN /\ NetworkManager' = r.n
                  /\ VersionManager' = a.v
                  /\ UpdateSafetyManager' = a.s
                  /\ RgFModuleUpdater' = a.u
                  /\ networkLog' = a.log
                  /\ UNCHANGED <<firmwareHash, statusResponse>>
          ELSE /\ NetworkManager' = r.n
               /\ networkLog' = "RgFModuleUpdate: Unknown command"
               /\ UNCHANGED <<VersionManager, UpdateSafetyManager, RgFModuleUpdater,
                              firmwareHash, statusResponse>>
    /\ UNCHANGED networkOthers

(***************************************************************************)
(* OTAUpdateManager                                                        *)
(***************************************************************************)
OTAUpdateManagerStatics ==
    [_networkInitialized |-> FALSE, _updateInProgress |-> FALSE, _firmwareBuffer |-> FALSE,
     _firmwareBufferSize |-> 0, _expectedSize |-> 0, _expectedChecksum |-> 0]


\* sizeof(OTACommandPacket)
OTACommandPacketSize == 184

OTA_CMD_CHECK_VERSION == 1
OTA_CMD_START_UPDATE == 2
OTA_CMD_CANCEL_UPDATE == 3
OTA_CMD_ROLLBACK == 4
OTA_CMD_REBOOT == 5

\* the OTA command packets that arrive
OTAStartPacket ==
    [Command |-> OTA_CMD_START_UPDATE, FirmwareSize |-> 524288, DownloadUrl |-> FirmwareUrl,
     Checksum |-> 7]
OTACommandPackets ==
    {OTAStartPacket,
     [OTAStartPacket EXCEPT !.FirmwareSize = 0],
     [OTAStartPacket EXCEPT !.FirmwareSize = MAX_FIRMWARE_SIZE + 1],
     [OTAStartPacket EXCEPT !.DownloadUrl = ""]}
    \cup {[OTAStartPacket EXCEPT !.Command = c] :
             c \in {OTA_CMD_CHECK_VERSION, OTA_CMD_CANCEL_UPDATE, OTA_CMD_ROLLBACK,
                    OTA_CMD_REBOOT, 0}}

OTAPacketSizes == {0, OTACommandPacketSize - 1, OTACommandPacketSize, OTACommandPacketSize + 1}

\* OTAUpdateManager::cleanup()
cleanup(o) ==
    [o EXCEPT !._updateInProgress = FALSE, !._firmwareBuffer = FALSE,
              !._firmwareBufferSize = 0, !._expectedSize = 0, !._expectedChecksum = 0]

\* OTAUpdateManager::performSafetyChecks(): stationary and healthy are assumed
OTA_performSafetyChecks == TRUE

otaOthers == <<build, role, millis, flash, RgFModuleUpdater, UpdateSafetyManager,
               FlashBackupManager, NetworkManager, firmwareHash, statusResponse, networkLog,
    caller>>

\* OTAUpdateManager::initialize()
OTA_initialize ==
    /\ pc = "idle"
    /\ VersionManager' = VersionManagerStatics
    /\ OTAUpdateManager' = [OTAUpdateManager EXCEPT !._networkInitialized = TRUE,
                                                    !._updateInProgress = FALSE]
    /\ UNCHANGED <<otaOthers, pc, wf>>

\* the error handler extended by an automatic rollback
handleUpdateError_rollsBack(o, v, error) ==
    [o |-> cleanup(o), v |-> setUpdateStatus(setUpdateError(v, error), "UPDATE_ROLLBACK", 0)]

\* OTAUpdateManager::handleUpdateError(error)
handleUpdateError(o, v, error) == [o |-> cleanup(o), v |-> setUpdateError(v, error)]

\* OTAUpdateManager::startUpdate(command) up to the call of downloadFirmware;
\* mallocOk is whether the firmware buffer could be allocated
startUpdate(command, mallocOk) ==
    LET o == OTAUpdateManager
        o1 == [o EXCEPT !._updateInProgress = TRUE, !._expectedSize = command.FirmwareSize,
                        !._expectedChecksum = command.Checksum,
                        !._firmwareBufferSize = command.FirmwareSize,
                        !._firmwareBuffer = mallocOk]
        e == handleUpdateError(o1, VersionManager, "Failed to allocate firmware buffer")
    IN IF \/ o._updateInProgress
          \/ ~OTA_performSafetyChecks
          \/ command.FirmwareSize = 0
          \/ command.FirmwareSize > MAX_FIRMWARE_SIZE
          \/ command.DownloadUrl = ""
       THEN UNCHANGED <<OTAUpdateManager, VersionManager, pc, wf>>
       ELSE IF ~mallocOk
       THEN /\ OTAUpdateManager' = e.o
            /\ VersionManager' = e.v
            /\ UNCHANGED <<pc, wf>>
       ELSE /\ OTAUpdateManager' = o1
            /\ VersionManager' = setUpdateStatus(VersionManager, "UPDATE_DOWNLOADING", 0)
            /\ pc' = "ota_download"
            /\ wf' = [NoWorkflow EXCEPT !.i = 1]

\* OTAUpdateManager::cancelUpdate()
cancelUpdate(o, v) ==
    IF ~o._updateInProgress THEN [o |-> o, v |-> v]
    ELSE [o |-> cleanup(o), v |-> setUpdateStatus(v, "UPDATE_IDLE", 0)]

\* OTAUpdateManager::update(): a datagram of packetSize bytes carrying command
\* is waiting on the OTA socket (0: none); processOTACommand dispatches it
OTA_update(packetSize, command, mallocOk) ==
    /\ pc = "idle"
    /\ IF ~OTAUpdateManager._networkInitialized \/ packetSize # OTACommandPacketSize
       THEN UNCHANGED <<OTAUpdateManager, VersionManager, pc, wf>>
       ELSE IF command.Command = OTA_CMD_START_UPDATE
       THEN startUpdate(command, mallocOk)
       ELSE IF command.Command = OTA_CMD_CANCEL_UPDATE
       THEN LET c == cancelUpdate(OTAUpdateManager, VersionManager)
            IN /\ OTAUpdateManager' = c.o
               /\ VersionManager' = c.v
               /\ UNCHANGED <<pc, wf>>
       ELSE IF command.Command = OTA_CMD_ROLLBACK
       THEN /\ VersionManager' = setUpdateStatus(VersionManager, "UPDATE_ROLLBACK", 0)
            /\ pc' = "ota_rollback"
            /\ UNCHANGED <<OTAUpdateManager, wf>>
       ELSE IF command.Command = OTA_CMD_REBOOT
       THEN /\ pc' = "ota_reboot"
            /\ UNCHANGED <<OTAUpdateManager, VersionManager, wf>>
       ELSE \* CHECK_VERSION and unknown commands are answered, nothing changes
            UNCHANGED <<OTAUpdateManager, VersionManager, pc, wf>>
    /\ UNCHANGED otaOthers

\* the progress reports of downloadFirmware(), in order
DownloadReports == <<25, 50, 75, 100>>

\* OTAUpdateManager::downloadFirmware(): one progress report of the
\* simulated download; after the last, verifyFirmware() begins
OTA_downloadFirmware ==
    /\ pc = "ota_download"
    /\ VersionManager' =
          reportUpdateProgress(VersionManager, "UPDATE_DOWNLOADING", DownloadReports[wf.i])
    /\ IF wf.i < Len(DownloadReports)
       THEN /\ wf' = [wf EXCEPT !.i = @ + 1]
            /\ UNCHANGED pc
       ELSE /\ wf' = [wf EXCEPT !.i = 1]
            /\ pc' = "ota_verify"
    /\ UNCHANGED <<otaOthers, OTAUpdateManager>>

\* the status reports of verifyFirmware(), in order
VerifyReports == <<0, 50, 100>>

\* OTAUpdateManager::verifyFirmware(expectedChecksum): the calculated
\* checksum is set to the expected one, so the comparison cannot fail.  Were
\* it to fail, false would return through downloadFirmware() to
\* startUpdate(), which calls handleUpdateError("Firmware download failed")
OTA_verifyFirmware ==
    /\ pc = "ota_verify"
    /\ LET calculatedChecksum == OTAUpdateManager._expectedChecksum
           e1 == handleUpdateError(OTAUpdateManager, VersionManager,
                                   "Firmware verification failed - checksum mismatch")
           e == handleUpdateError(e1.o, e1.v, "Firmware download failed")
       IN IF wf.i = Len(VerifyReports) /\ calculatedChecksum # OTAUpdateManager._expectedChecksum
          THEN /\ OTAUpdateManager' = e.o
               /\ VersionManager' = e.v
               /\ pc' = "idle"
               /\ wf' = NoWorkflow
          ELSE /\ VersionManager' =
                     reportUpdateProgress(VersionManager, "UPDATE_VERIFYING", VerifyReports[wf.i])
               /\ UNCHANGED OTAUpdateManager
               /\ IF wf.i < Len(VerifyReports)
                  THEN /\ wf' = [wf EXCEPT !.i = @ + 1]
                       /\ UNCHANGED pc
                  ELSE /\ wf' = [wf EXCEPT !.i = 1]
                       /\ pc' = "ota_flash"
    /\ UNCHANGED otaOthers

\* the status reports of flashFirmware(), in order
FlashReports ==
    <<<<"UPDATE_FLASHING", 0>>, <<"UPDATE_FLASHING", 25>>, <<"UPDATE_FLASHING", 50>>,
      <<"UPDATE_FLASHING", 75>>, <<"UPDATE_FLASHING", 100>>, <<"UPDATE_SUCCESS", 100>>,
      <<"UPDATE_REBOOTING", 100>>>>

\* OTAUpdateManager::flashFirmware(): backupCurrentFirmware() copies nothing
\* and returns true, the flash write is simulated; cleanup() follows Success
OTA_flashFirmware ==
    /\ pc = "ota_flash"
    /\ VersionManager' =
          setUpdateStatus(VersionManager, FlashReports[wf.i][1], FlashReports[wf.i][2])
    /\ OTAUpdateManager' = IF FlashReports[wf.i][1] = "UPDATE_SUCCESS"
                           THEN cleanup(OTAUpdateManager) ELSE OTAUpdateManager
    /\ IF wf.i < Len(FlashReports)
       THEN /\ wf' = [wf EXCEPT !.i = @ + 1]
            /\ UNCHANGED pc
       ELSE /\ wf' = NoWorkflow
            /\ pc' = "ota_reboot"
    /\ UNCHANGED otaOthers

\* OTAUpdateManager::rollbackFirmware() after the status Rollback:
\* restoreFromBackup() restores nothing and returns true
OTA_rollbackFirmware ==
    /\ pc = "ota_rollback"
    /\ VersionManager' = setUpdateStatus(VersionManager, "UPDATE_REBOOTING", 100)
    /\ pc' = "ota_reboot"
    /\ UNCHANGED <<otaOthers, OTAUpdateManager, wf>>

(***************************************************************************)
(* FlashBackupManager                                                      *)
(***************************************************************************)
\* BackupStatus _backupStatus = {}
NoBackupStatus ==
    [hasValidBackup |-> FALSE, backupVersion |-> <<0, 0, 0>>, backupSize |-> 0,
     backupChecksum |-> <<0, 0>>, lastOperation |-> "BACKUP_SUCCESS", lastError |-> ""]

FlashBackupManagerStatics ==
    [_initialized |-> FALSE, _verificationEnabled |-> TRUE, _backupStatus |-> NoBackupStatus,
     _backupStatusValid |-> FALSE]

\* updateBackupStatus(): no backup is detected, whatever the bank holds
updateBackupStatus(b) ==
    [b EXCEPT !._backupStatus.hasValidBackup = FALSE, !._backupStatus.backupSize = 0,
              !._backupStatus.backupChecksum = <<0, 0>>, !._backupStatusValid = TRUE]

\* FlashBackupManager::init()
FlashBackupManager_init(b) ==
    IF b._initialized THEN b
    ELSE [updateBackupStatus([b EXCEPT !._backupStatus = NoBackupStatus])
             EXCEPT !._initialized = TRUE]

setLastError(b, result, error) ==
    [b EXCEPT !._backupStatus.lastOperation = result, !._backupStatus.lastError = error]

isFlashOperationSafe == TRUE

\* FlashBackupManager::performSafetyChecks()
FlashBackupManager_performSafetyChecks ==
    IF ~isFlashOperationSafe THEN "BACKUP_ERROR_FLASH_BUSY" ELSE "BACKUP_SUCCESS"

isValidFlashAddress(address) ==
    address >= CURRENT_FIRMWARE_BASE /\ address < BACKUP_FIRMWARE_BASE + FIRMWARE_MAX_SIZE

calculateSectorsNeeded(size) == (size + FLASH_SECTOR_SIZE - 1) \div FLASH_SECTOR_SIZE

\* CRC32 of size bytes of flash from bankAddress
calculateFirmwareChecksum(f, bankAddress, size) ==
    calculateCRC32(readFlashBlock(f, bankAddress, size))

verifyFirmwareIntegrity(f, bankAddress, size, expectedChecksum) ==
    calculateFirmwareChecksum(f, bankAddress, size) = expectedChecksum

\* FlashBackupManager::verifyBackupIntegrity()
verifyBackupIntegrity(b, f) ==
    IF ~b._backupStatus.hasValidBackup THEN "BACKUP_ERROR_NO_BACKUP"
    ELSE IF verifyFirmwareIntegrity(f, BACKUP_FIRMWARE_BASE, b._backupStatus.backupSize,
                                    b._backupStatus.backupChecksum)
    THEN "BACKUP_SUCCESS" ELSE "BACKUP_ERROR_VERIFY_FAILED"

validateFirmwareVersion(version) ==
    IF version = <<0, 0, 0>> THEN "BACKUP_ERROR_VERSION_MISMATCH" ELSE "BACKUP_SUCCESS"

\* FlashBackupManager::hasValidBackup(): the record after the call, and the answer
hasValidBackup(b) ==
    LET b1 == FlashBackupManager_init(b)
        b2 == IF ~b1._backupStatusValid THEN updateBackupStatus(b1) ELSE b1
    IN [b |-> b2, has |-> b2._backupStatus.hasValidBackup]

\* FlashBackupManager::validateBackup()
validateBackup(b, f) ==
    LET h == hasValidBackup(b)
        result ==
           IF ~h.has THEN "BACKUP_ERROR_NO_BACKUP"
           ELSE IF calculateFirmwareChecksum(f, BACKUP_FIRMWARE_BASE, h.b._backupStatus.backupSize)
                      # h.b._backupStatus.backupChecksum
           THEN "BACKUP_ERROR_CORRUPTED"
           ELSE validateFirmwareVersion(h.b._backupStatus.backupVersion)
    IN [b |-> h.b, result |-> result]

\* VersionManager::getCurrentVersion()
CURRENT_VERSION == <<1, 0, 0>>

backupOthers == <<build, role, millis, RgFModuleUpdater, VersionManager, UpdateSafetyManager,
                  OTAUpdateManager, NetworkManager, firmwareHash, statusResponse, networkLog,
    caller>>

\* a backup or restore has returned result with an error text
BackupFails(b, f, result, error) ==
    /\ FlashBackupManager' = setLastError(b, result, error)
    /\ flash' = f
    /\ pc' = "idle"
    /\ wf' = NoWorkflow

\* FlashBackupManager::backupCurrentFirmware() up to the erase of the backup bank
backupCurrentFirmware ==
    /\ pc = "idle"
    /\ LET b == FlashBackupManager_init(FlashBackupManager)
           safetyResult == FlashBackupManager_performSafetyChecks
       IN IF safetyResult # "BACKUP_SUCCESS"
          THEN BackupFails(b, flash, safetyResult, "Safety checks failed")
          ELSE /\ FlashBackupManager' = b
               /\ pc' = "bank_erase"
               /\ wf' = [NoWorkflow EXCEPT !.op = "backup"]
               /\ UNCHANGED flash
    /\ UNCHANGED backupOthers

\* a restore that does not ask whether a valid backup exists
restoreFromBackup_unchecked ==
    /\ pc = "idle"
    /\ FlashBackupManager' = FlashBackupManager_init(FlashBackupManager)
    /\ pc' = "bank_erase"
    /\ wf' = [NoWorkflow EXCEPT !.op = "restore"]
    /\ UNCHANGED flash
    /\ UNCHANGED backupOthers

\* a restore that erases the current bank before it looks at the backup
restoreFromBackup_eraseFirst ==
    /\ pc = "idle"
    /\ LET v == validateBackup(FlashBackupManager, flash)
           erased == EraseSectors(flash, CURRENT_FIRMWARE_BASE,
                                  calculateSectorsNeeded(FIRMWARE_MAX_SIZE))
       IN IF v.result # "BACKUP_SUCCESS"
          THEN BackupFails(v.b, erased, v.result, "Backup validation failed")
          ELSE /\ FlashBackupManager' = v.b
               /\ flash' = erased
               /\ pc' = "bank_copy"
               /\ wf' = [NoWorkflow EXCEPT !.op = "restore"]
    /\ UNCHANGED backupOthers

\* FlashBackupManager::restoreFromBackup() up to the erase of the current bank
restoreFromBackup ==
    /\ pc = "idle"
    /\ LET h == hasValidBackup(FlashBackupManager)
           safetyResult == FlashBackupManager_performSafetyChecks
           v == validateBackup(h.b, flash)
       IN IF ~h.has
          THEN BackupFails(h.b, flash, "BACKUP_ERROR_NO_BACKUP",
                           "No valid backup available for restore")
          ELSE IF safetyResult # "BACKUP_SUCCESS"
          THEN BackupFails(h.b, flash, safetyResult, "Safety checks failed for restore")
          ELSE IF v.result # "BACKUP_SUCCESS"
          THEN BackupFails(v.b, flash, v.result, "Backup validation failed")
          ELSE /\ FlashBackupManager' = v.b
               /\ pc' = "bank_erase"
               /\ wf' = [NoWorkflow EXCEPT !.op = "restore"]
               /\ UNCHANGED flash
    /\ UNCHANGED backupOthers

\* the bank that the running backup or restore erases and writes, the bank
\* it reads, and the number of bytes it moves
TargetBank == IF wf.op = "backup" THEN BACKUP_FIRMWARE_BASE ELSE CURRENT_FIRMWARE_BASE
SourceBank == IF wf.op = "backup" THEN CURRENT_FIRMWARE_BASE ELSE BACKUP_FIRMWARE_BASE
firmwareSize ==
    IF wf.op = "backup" THEN FIRMWARE_MAX_SIZE ELSE FlashBackupManager._backupStatus.backupSize

\* FlashBackupManager::eraseFirmwareBank(bankAddress, size): one pass of its
\* loop; wf.i is the sector
eraseFirmwareBank(hw) ==
    /\ pc = "bank_erase"
    /\ LET b == FlashBackupManager
           eraseError == IF wf.op = "backup" THEN "Failed to erase backup bank"
                         ELSE "CRITICAL: Failed to erase current bank during restore"
           sectorAddress == TargetBank + (wf.i * FLASH_SECTOR_SIZE)
           e == flash_erase_sector(flash, sectorAddress, hw)
       IN IF ~isValidFlashAddress(TargetBank) \/ ~isValidFlashAddress(TargetBank + firmwareSize - 1)
          THEN BackupFails(b, flash, "BACKUP_ERROR_UNKNOWN", eraseError)
          ELSE IF calculateSectorsNeeded(firmwareSize) = 0
          THEN /\ pc' = "bank_copy"
               /\ UNCHANGED <<FlashBackupManager, flash, wf>>
          ELSE IF e.err # 0
          THEN BackupFails(b, e.f, "BACKUP_ERROR_ERASE_FAILED", eraseError)
          ELSE /\ flash' = e.f
               /\ UNCHANGED FlashBackupManager
               /\ IF wf.i + 1 < calculateSectorsNeeded(firmwareSize)
                  THEN /\ wf' = [wf EXCEPT !.i = @ + 1]
                       /\ UNCHANGED pc
                  ELSE /\ wf' = [wf EXCEPT !.i = 0]
                       /\ pc' = "bank_copy"
    /\ UNCHANGED backupOthers

\* FlashBackupManager::writeFirmwareToBank(bankAddress, buffer, size, offset)
writeFirmwareToBank(f, bankAddress, buffer, offset, hw) ==
    IF \/ ~isValidFlashAddress(bankAddress + offset)
       \/ ~isValidFlashAddress(bankAddress + offset + Len(buffer) - 1)
    THEN [f |-> f, result |-> "BACKUP_ERROR_UNKNOWN"]
    ELSE LET w == flash_write_block(f, bankAddress + offset - FLASH_BASE_ADDR, buffer, hw)
         IN [f |-> w.f,
             result |-> IF w.err # 0 THEN "BACKUP_ERROR_WRITE_FAILED" ELSE "BACKUP_SUCCESS"]

\* the copy loop of backupCurrentFirmware() and restoreFromBackup(): one
\* chunk; wf.i is totalCopied; mallocOk is whether the chunk buffer could be
\* allocated before the loop
copyFirmware(hw, mallocOk) ==
    /\ pc = "bank_copy"
    /\ LET b == FlashBackupManager
           totalCopied == wf.i
           chunkSize == Min(CHUNK_SIZE, firmwareSize - totalCopied)
           readable == /\ isValidFlashAddress(SourceBank + totalCopied)
                       /\ isValidFlashAddress(SourceBank + totalCopied + chunkSize - 1)
           buffer == readFlashBlock(flash, SourceBank + totalCopied, chunkSize)
           w == writeFirmwareToBank(flash, TargetBank, buffer, totalCopied, hw)
           copyError == IF wf.op = "backup" THEN "Failed to copy firmware to backup bank"
                        ELSE "CRITICAL: Failed to restore firmware from backup"
       IN IF totalCopied = 0 /\ ~mallocOk
          THEN BackupFails(b, flash, "BACKUP_ERROR_UNKNOWN",
                           IF wf.op = "backup" THEN "Failed to allocate copy buffer"
                           ELSE "CRITICAL: Failed to allocate restore buffer")
          ELSE IF totalCopied >= firmwareSize
          THEN /\ pc' = "bank_finish"
               /\ UNCHANGED <<FlashBackupManager, flash, wf>>
          ELSE IF ~readable
          THEN BackupFails(b, flash, "BACKUP_ERROR_UNKNOWN", copyError)
          ELSE IF w.result # "BACKUP_SUCCESS"
          THEN BackupFails(b, w.f, w.result, copyError)
          ELSE /\ flash' = w.f
               /\ UNCHANGED FlashBackupManager
               /\ wf' = [wf EXCEPT !.i = totalCopied + chunkSize]
               /\ pc' = IF totalCopied + chunkSize < firmwareSize THEN "bank_copy"
                        ELSE "bank_finish"
    /\ UNCHANGED backupOthers

\* the end of backupCurrentFirmware() and of restoreFromBackup(): the
\* verification, and for a backup the status record
finishBackupOrRestore ==
    /\ pc = "bank_finish"
    /\ LET b == FlashBackupManager
           totalCopied == wf.i
           verifyResult == verifyBackupIntegrity(b, flash)
           restoredChecksum == calculateFirmwareChecksum(flash, CURRENT_FIRMWARE_BASE, firmwareSize)
       IN IF wf.op = "backup"
          THEN IF b._verificationEnabled /\ verifyResult # "BACKUP_SUCCESS"
               THEN BackupFails(b, flash, verifyResult, "Backup verification failed")
               ELSE /\ FlashBackupManager' =
                          [b EXCEPT !._backupStatus =
                              [hasValidBackup |-> TRUE, backupVersion |-> CURRENT_VERSION,
                               backupSize |-> totalCopied,
                               backupChecksum |->
                                  calculateFirmwareChecksum(flash, BACKUP_FIRMWARE_BASE, totalCopied),
                               lastOperation |-> "BACKUP_SUCCESS", lastError |-> ""],
                                    !._backupStatusValid = TRUE]
                    /\ pc' = "idle"
                    /\ wf' = NoWorkflow
                    /\ UNCHANGED flash
          ELSE IF b._verificationEnabled /\ restoredChecksum # b._backupStatus.backupChecksum
               THEN BackupFails(b, flash, "BACKUP_ERROR_VERIFY_FAILED",
                                "CRITICAL: Restored firmware checksum mismatch")
               ELSE /\ pc' = "idle"
                    /\ wf' = NoWorkflow
                    /\ UNCHANGED <<FlashBackupManager, flash>>
    /\ UNCHANGED backupOthers

(***************************************************************************)
(* Boot, reset and power loss                                              *)
(***************************************************************************)
\* the processor starts from the current bank: the statics take their
\* initial values, the flash keeps its content
Boot(f) ==
    /\ flash' = f
    /\ pc' = IF HoldsImage(f, CURRENT_FIRMWARE_BASE) THEN "idle" ELSE "dead"
    /\ wf' = NoWorkflow
    /\ millis' = 0
    /\ RgFModuleUpdater' = RgFModuleUpdaterStatics
    /\ VersionManager' = VersionManagerStatics
    /\ UpdateSafetyManager' = UpdateSafetyManagerStatics
    /\ OTAUpdateManager' = OTAUpdateManagerStatics
    /\ FlashBackupManager' = FlashBackupManagerStatics
    /\ NetworkManager' = NetworkManagerStatics
    /\ firmwareHash' = << >>
    /\ statusResponse' = NoStatusPacket
    /\ networkLog' = ""
    /\ caller' = NoCaller
    /\ UNCHANGED <<build, role>>

\* power is lost, or the device is reset, between two flash operations
PowerLoss ==
    /\ pc # "dead"
    /\ Boot(flash)

\* OTAUpdateManager::rebootModule(): the ARM system reset
rebootModule ==
    /\ pc = "ota_reboot"
    /\ Boot(flash)

ModuleRoles == {"MODULE_LEFT", "MODULE_CENTRE"}

\* the state after the static initializers have run
PowerOn ==
    /\ build \in Builds
    /\ role \in ModuleRoles
    /\ millis = 0
    /\ flash = [o \in 0..(FLASH_SIZE - 1) |->
                   IF o < Len(FactoryImage) THEN FactoryImage[o + 1] ELSE ERASED]
    /\ pc = "idle"
    /\ wf = NoWorkflow
    /\ RgFModuleUpdater = RgFModuleUpdaterStatics
    /\ VersionManager = VersionManagerStatics
    /\ UpdateSafetyManager = UpdateSafetyManagerStatics
    /\ OTAUpdateManager = OTAUpdateManagerStatics
    /\ FlashBackupManager = FlashBackupManagerStatics
    /\ NetworkManager = NetworkManagerStatics
    /\ firmwareHash = << >>
    /\ statusResponse = NoStatusPacket
    /\ networkLog = ""

Init == PowerOn /\ caller = NoCaller

\* the update workflow of RgFModuleUpdater::performUpdateFromBuffer
UpdaterNext ==
    \/ initialize
    \/ \E data \in Images, failAt \in InitFailPoints : createFlashBuffer(data, failAt)
    \/ \E hw \in HwResults : downloadFirmwareFromBuffer(hw)
    \/ \E idFound \in BOOLEAN : validateFirmware(idFound)
    \/ flashFirmware
    \/ \E hw \in HwResults : flashFirmware_erase(hw)
    \/ \E hw \in HwResults : flashFirmware_write(hw)
    \/ \E idFound \in BOOLEAN : verifyFirmware(idFound)
    \/ performUpdateFromBuffer_finish

\* the download over HTTP, each step called on its own
DownloadNext ==
    \/ initialize
    \/ \E failAt \in InitFailPoints : createFlashBuffer_call(failAt)
    \/ \E response \in HttpResponses : downloadFirmware(response)

\* the download from a server that never answers, pass by pass
WaitNext ==
    \/ initialize
    \/ \E failAt \in InitFailPoints : createFlashBuffer_call(failAt)
    \/ \E start \in StartClocks : downloadFirmware_request(start)
    \/ downloadFirmware_wait

BackupNext ==
    \/ backupCurrentFirmware
    \/ restoreFromBackup
    \/ \E hw \in HwResults : eraseFirmwareBank(hw)
    \/ \E hw \in HwResults, mallocOk \in BOOLEAN : copyFirmware(hw, mallocOk)
    \/ finishBackupOrRestore

SafetyNext ==
    \/ init
    \/ update
    \/ isSafeToUpdate_call
    \/ enterUpdateMode
    \/ exitUpdateMode
    \/ emergencyAbortUpdate_call
    \/ \E speedMs \in SpeedThresholds : setStationarySpeedThreshold(speedMs)
    \/ \E minVoltage \in MinimumVoltages : setMinimumVoltage(minVoltage)

VersionNext ==
    \E status \in UpdateStatus_t, progress \in Progresses : setUpdateStatus_call(status, progress)

\* the comparisons of VersionManager
CompareNext ==
    \/ compareVersions_call
    \/ isVersionNewer_call
    \/ areVersionsEqual_call

\* the integrity check of RgFModuleUpdater
IntegrityNext == validateFirmwareIntegrity_call

NetworkNext ==
    \/ \E ok \in BOOLEAN : NetworkManager_initialize(ok)
    \/ \E packetSize \in PacketSizes, command \in CommandPackets, readOk, sendOk \in BOOLEAN :
          processRgFModuleUpdateCommands(packetSize, command, readOk, sendOk)

OTANext ==
    \/ OTA_initialize
    \/ \E packetSize \in OTAPacketSizes, command \in OTACommandPackets, mallocOk \in BOOLEAN :
          OTA_update(packetSize, command, mallocOk)
    \/ OTA_downloadFirmware
    \/ OTA_verifyFirmware
    \/ OTA_flashFirmware
    \/ OTA_rollbackFirmware
    \/ rebootModule

Next ==
    \/ UpdaterNext
    \/ DownloadNext
    \/ WaitNext
    \/ BackupNext
    \/ SafetyNext
    \/ VersionNext
    \/ CompareNext
    \/ IntegrityNext
    \/ NetworkNext
    \/ OTANext
    \/ AdvanceTime
    \/ PowerLoss

Spec == Init /\ [][Next]_vars

(***************************************************************************)
(* Specifications of the subsystems.  Each runs a part of Next from Init,  *)
(* so each of its behaviours is a behaviour of Spec.                       *)
(***************************************************************************)
\* the flash: the update workflow, backup and restore, and power loss
FlashNext == UpdaterNext \/ BackupNext \/ PowerLoss
FlashSpec == Init /\ [][FlashNext]_vars

\* the update workflow alone
UpdaterSpec == Init /\ [][UpdaterNext]_vars

\* the download over HTTP alone
DownloadSpec == Init /\ [][DownloadNext]_vars

\* the wait of downloadFirmware() for a server that never answers
WaitSpec == Init /\ [][WaitNext]_vars

\* the version comparisons, applied to every pair of versions
CompareInit == PowerOn /\ caller \in VersionCallers
CompareSpec == CompareInit /\ [][CompareNext]_vars

\* the integrity check, applied to every image and recorded information
IntegrityInit == caller \in IntegrityCallers /\ PowerOn
IntegritySpec == IntegrityInit /\ [][IntegrityNext]_vars

\* backup and restore alone
BackupSpec == Init /\ [][BackupNext]_vars

\* the update workflow and the safety gate
GateNext ==
    \/ UpdaterNext
    \/ isSafeToUpdate_call
    \/ \E minVoltage \in MinimumVoltages : setMinimumVoltage(minVoltage)
GateSpec == Init /\ [][GateNext]_vars

\* the update workflow and the START_UPDATE commands of the command protocol
HashNext ==
    \/ UpdaterNext
    \/ \E ok \in BOOLEAN : NetworkManager_initialize(ok)
    \/ \E command \in {c \in CommandPackets : c.Command = "START_UPDATE"} :
           processRgFModuleUpdateCommands(CommandPacketSize, command, TRUE, TRUE)
HashSpec == Init /\ [][HashNext]_vars

\* the update session: the command protocol and the session status
SessionNext == NetworkNext \/ VersionNext
SessionSpec == Init /\ [][SessionNext]_vars

\* both command protocols, with the OTA workflow
CommandNext == NetworkNext \/ OTANext
CommandSpec == Init /\ [][CommandNext]_vars

\* the safety manager, with the OTA workflow driving the session status
SafetyModeNext == SafetyNext \/ OTANext \/ AdvanceTime
SafetySpec == Init /\ [][SafetyModeNext]_vars

(***************************************************************************)
(* Properties                                                              *)
(***************************************************************************)
\* C1: whenever power may be lost (that is, in every state), at least one of
\* the two banks holds a complete, bootable image
C1_OneBankBootable ==
    HoldsImage(flash, CURRENT_FIRMWARE_BASE) \/ HoldsImage(flash, BACKUP_FIRMWARE_BASE)


\* C2: no byte is written to the firmware region unless the SHA-256 digest of
\* the staged image equals the hash that the START_UPDATE command carried
C2_WriteOnlyIfCommandHashMatches ==
    (pc = "write" /\ firmwareHash # << >>)
        => sha256ToString(calculateSHA256(wf.data)) = firmwareHash

\* the START_UPDATE command packets
StartUpdatePackets == {command \in CommandPackets : command.Command = "START_UPDATE"}

\* an update session is under way
SessionInProgress ==
    VersionManager._updateStatus \in {"UPDATE_DOWNLOADING", "UPDATE_VERIFYING", "UPDATE_FLASHING"}

\* C3: a START_UPDATE command packet handled while the session status is
\* Downloading, Verifying or Flashing is rejected: no workflow is started,
\* and the session's status, progress and error, the updater, the OTA
\* manager, the safety manager and the flash are as before the command
C3_ConcurrentStartRejected ==
    [][\A command \in StartUpdatePackets :
          (/\ SessionInProgress
           /\ processRgFModuleUpdateCommands(CommandPacketSize, command, TRUE, TRUE))
            => UNCHANGED <<VersionManager, RgFModuleUpdater, OTAUpdateManager,
                           UpdateSafetyManager, firmwareHash, pc, wf, flash>>]_vars

\* a START_UPDATE has been rejected while a download was half done
C3_Witness ==
    /\ networkLog = "RgFModuleUpdate: Update already in progress - rejecting concurrent update request"
    /\ VersionManager._updateStatus = "UPDATE_DOWNLOADING"
    /\ VersionManager._updateProgress = 50
    /\ NetworkManager._packetsReceived > 0

\* C4: flash is erased or written only after the safety gate has returned
\* SAFETY_OK, and while it would still return SAFETY_OK
C4_FlashOnlyAfterGateOk ==
    pc \in {"erase", "write"}
        => /\ UpdateSafetyManager._lastSafetyResult = "SAFETY_OK"
           /\ isSafeToUpdate(UpdateSafetyManager, millis, role).result = "SAFETY_OK"

\* the gate's verdict on the machine's conditions alone, the update-mode
\* short-circuit aside
ConditionsUnsafe ==
    isSafeToUpdate([UpdateSafetyManager EXCEPT !._updateModeActive = FALSE],
                   millis, role).result # "SAFETY_OK"

\* a periodic safety check is due
TickDue == millis - UpdateSafetyManager._lastSafetyCheck >= _safetyCheckInterval

\* C5: a periodic tick that finds the conditions unsafe while update mode is
\* Active aborts: update mode is Normal after it
C5_TickAbortsWhenUnsafe ==
    [][(/\ update
        /\ UpdateSafetyManager._currentMode = "UPDATE_MODE_ACTIVE"
        /\ UpdateSafetyManager._updateModeActive
        /\ TickDue
        /\ ConditionsUnsafe)
          => /\ UpdateSafetyManager'._currentMode = "UPDATE_MODE_NORMAL"
             /\ ~UpdateSafetyManager'._updateModeActive]_vars

\* C6: in every state in which the session status is not Idle, the safety
\* gate returns SAFETY_UPDATE_IN_PROGRESS
C6_GateBusyWhileSessionNotIdle ==
    (pc = "idle" /\ VersionManager._updateStatus # "UPDATE_IDLE")
        => isSafeToUpdate(UpdateSafetyManager, millis, role).result
               = "SAFETY_UPDATE_IN_PROGRESS"

\* C7: a command datagram whose length is not the command packet's size is
\* discarded: it is not counted as received, no command of it is acted on,
\* and the session's status, progress and error are unchanged; this holds of
\* the RgFModuleUpdate command socket and of the OTA command socket
C7_WrongLengthDiscarded ==
    [][/\ \A packetSize \in PacketSizes \ {0, CommandPacketSize}, command \in CommandPackets :
              processRgFModuleUpdateCommands(packetSize, command, TRUE, TRUE)
                => UNCHANGED <<VersionManager, RgFModuleUpdater, OTAUpdateManager,
                               UpdateSafetyManager, NetworkManager, firmwareHash,
                               statusResponse, pc, wf, flash>>
       /\ \A packetSize \in OTAPacketSizes \ {0, OTACommandPacketSize},
             command \in OTACommandPackets :
              OTA_update(packetSize, command, TRUE)
                => UNCHANGED <<VersionManager, RgFModuleUpdater, OTAUpdateManager,
                               UpdateSafetyManager, NetworkManager, firmwareHash,
                               statusResponse, pc, wf, flash>>]_vars

\* a datagram of the wrong length has been discarded after a session had
\* failed and a command of the right length had been received
C7_Witness ==
    /\ networkLog = "RgFModuleUpdate: Invalid command packet size"
    /\ NetworkManager._packetsReceived = 1
    /\ VersionManager._updateStatus = "UPDATE_FAILED"

\* a START_UPDATE command with every field valid reaches a module whose
\* session is Idle and whose safety gate passes
StartOnIdleModule(command) ==
    /\ VersionManager._updateStatus = "UPDATE_IDLE"
    /\ RgFModuleUpdater._status = "UPDATE_IDLE"
    /\ isSafeToUpdate(UpdateSafetyManager, millis, role).result = "SAFETY_OK"
    /\ \E sendOk \in BOOLEAN :
           processRgFModuleUpdateCommands(CommandPacketSize, command, TRUE, sendOk)

\* C8: a valid START_UPDATE on an idle module whose gate passes starts the
\* sequence Idle, Downloading, Verifying, Flashing, Success, Rebooting: the
\* session is Downloading once the command has been handled
C8_ValidStartBeginsDownloading ==
    [][StartOnIdleModule(StartUpdatePacket)
          => \/ VersionManager'._updateStatus = "UPDATE_DOWNLOADING"
             \/ RgFModuleUpdater'._status = "UPDATE_DOWNLOADING"]_vars

\* C9: a START_UPDATE whose hash does not match the image ends in Failed with
\* the error VALIDATION_FAILED
C9_AlteredHashFailsValidation ==
    [][StartOnIdleModule([StartUpdatePacket EXCEPT !.FirmwareHash = AlteredHash])
          => (RgFModuleUpdater'._status = "UPDATE_FAILED"
                  => RgFModuleUpdater'._lastError = "VALIDATION_FAILED")]_vars

\* C10: once an update has ended in Failed, the staging buffer is released:
\* the buffer address and the buffer size are both zero
C10_FailedReleasesBuffer ==
    (pc = "idle" /\ RgFModuleUpdater._status = "UPDATE_FAILED")
        => /\ RgFModuleUpdater._flashBuffer = 0
           /\ RgFModuleUpdater._flashBufferSize = 0


\* the steps that may follow a step of performUpdateFromBuffer: the step
\* itself while one of the two loops of flashFirmware runs, the next step,
\* or the return to the caller
StepsAfter(step) ==
    {"idle"} \cup
    (IF step = "idle" THEN {"download"}
     ELSE IF step = "download" THEN {"validate"}
     ELSE IF step = "validate" THEN {"flash"}
     ELSE IF step = "flash" THEN {"erase"}
     ELSE IF step = "erase" THEN {"erase", "write"}
     ELSE IF step = "write" THEN {"write", "verify"}
     ELSE IF step = "verify" THEN {"finish"}
     ELSE {})

\* C11: the steps createFlashBuffer, download, validate, flash, verify,
\* complete run in that order, and a step that has failed is followed by no
\* other step: the workflow returns
C11_StepsInOrder ==
    [][/\ pc' \in StepsAfter(pc)
       /\ (pc' # "idle" => RgFModuleUpdater'._status # "UPDATE_FAILED")
       /\ (pc = "finish" => RgFModuleUpdater'._status = "UPDATE_SUCCESS")]_vars

\* an update has run through all six steps
C11_Witness ==
    /\ pc = "idle"
    /\ RgFModuleUpdater._status = "UPDATE_SUCCESS"
    /\ RgFModuleUpdater._progress = 100


\* the START_UPDATE packets with a field that the handling must refuse
InvalidStartPackets ==
    {command \in StartUpdatePackets :
        \/ command.FirmwareSize = 0
        \/ command.FirmwareSize > MAX_FIRMWARE_SIZE
        \/ command.FirmwareUrl = ""
        \/ command.FirmwareHash = << >>}

InvalidOTAStartPackets ==
    {command \in OTACommandPackets :
        /\ command.Command = OTA_CMD_START_UPDATE
        /\ \/ command.FirmwareSize = 0
           \/ command.FirmwareSize > MAX_FIRMWARE_SIZE
           \/ command.DownloadUrl = ""}

\* C12: a START_UPDATE with size 0, a size above MAX_FIRMWARE_SIZE, an empty
\* URL or an empty hash is rejected: no buffer is allocated and the session,
\* the updater and the OTA manager are as they were before the command
C12_InvalidStartRejected ==
    [][/\ \A command \in InvalidStartPackets :
              processRgFModuleUpdateCommands(CommandPacketSize, command, TRUE, TRUE)
                => UNCHANGED <<VersionManager, RgFModuleUpdater, OTAUpdateManager,
                               firmwareHash, pc, flash>>
       /\ \A command \in InvalidOTAStartPackets, mallocOk \in BOOLEAN :
              OTA_update(OTACommandPacketSize, command, mallocOk)
                => UNCHANGED <<VersionManager, RgFModuleUpdater, OTAUpdateManager,
                               firmwareHash, pc, flash>>]_vars


\* C13: what STATUS_QUERY reports is the updater's current status: once an
\* update started by START_UPDATE has failed, the response to the next
\* STATUS_QUERY has Status = "ERROR"
C13_StatusQueryReportsFailure ==
    [][(/\ NetworkManager._initialized
        /\ firmwareHash # << >>
        /\ RgFModuleUpdater._status = "UPDATE_FAILED"
        /\ processRgFModuleUpdateCommands(CommandPacketSize, DefaultCommandPacket, TRUE, TRUE))
          => statusResponse'.Status = "ERROR"]_vars


\* the name of a stage in the status response
StageName(status) ==
    IF status = "UPDATE_DOWNLOADING" THEN "Downloading firmware"
    ELSE IF status = "UPDATE_VERIFYING" THEN "Verifying firmware"
    ELSE "Flashing firmware"

\* C14: the response to a STATUS_QUERY has Status = "UPDATING", the name of
\* the stage and the session's progress while the session is Downloading,
\* Verifying or Flashing, and Status = "OPERATIONAL" while it is Idle
C14_StatusQueryResponse ==
    [][(/\ NetworkManager._initialized
        /\ processRgFModuleUpdateCommands(CommandPacketSize, DefaultCommandPacket, TRUE, TRUE))
          => /\ SessionInProgress
                  => /\ statusResponse'.Status = "UPDATING"
                     /\ statusResponse'.UpdateStage = StageName(VersionManager._updateStatus)
                     /\ statusResponse'.UpdateProgress = VersionManager._updateProgress
             /\ VersionManager._updateStatus = "UPDATE_IDLE"
                  => statusResponse'.Status = "OPERATIONAL"]_vars

\* a STATUS_QUERY has been answered while the session was Flashing at 50 %
C14_Witness ==
    /\ VersionManager._updateStatus = "UPDATE_FLASHING"
    /\ VersionManager._updateProgress = 50
    /\ statusResponse.Status = "UPDATING"
    /\ statusResponse.UpdateStage = "Flashing firmware"
    /\ statusResponse.UpdateProgress = 50
    /\ networkLog = "RgFModuleUpdate status sent"


\* C15: a backup whose erases and writes have all succeeded returns
\* BACKUP_SUCCESS; after it hasValidBackup() is true and the record holds the
\* CRC32 of the backup region and the current version
C15_BackupSucceeds ==
    [][(finishBackupOrRestore /\ wf.op = "backup")
          => /\ FlashBackupManager'._backupStatus.lastOperation = "BACKUP_SUCCESS"
             /\ hasValidBackup(FlashBackupManager').has
             /\ FlashBackupManager'._backupStatus.backupVersion = CURRENT_VERSION
             /\ FlashBackupManager'._backupStatus.backupChecksum
                   = calculateFirmwareChecksum(flash', BACKUP_FIRMWARE_BASE, FIRMWARE_MAX_SIZE)]_vars

C17_RestoreWithoutBackup ==
    [][(restoreFromBackup /\ ~FlashBackupManager._backupStatus.hasValidBackup)
          => /\ flash' = flash
             /\ pc' = "idle"
             /\ FlashBackupManager'._backupStatus.lastOperation = "BACKUP_ERROR_NO_BACKUP"]_vars

\* a restore has been refused for want of a backup, the current bank still
\* holding its image
C17_Witness ==
    /\ pc = "idle"
    /\ FlashBackupManager._backupStatus.lastOperation = "BACKUP_ERROR_NO_BACKUP"
    /\ FlashBackupManager._backupStatus.lastError = "No valid backup available for restore"
    /\ HoldsImage(flash, CURRENT_FIRMWARE_BASE)

\* C18: a restore that follows a backup whose erases and writes all succeeded
\* is not refused: it goes on to put the saved image back
C18_RestoreAfterBackup ==
    [][(/\ restoreFromBackup
        /\ FlashBackupManager._backupStatus.lastError = "Backup verification failed")
          => pc' = "bank_erase"]_vars


\* the result codes in the order the gate evaluates its checks
GateOrder ==
    <<"SAFETY_UPDATE_IN_PROGRESS", "SAFETY_SYSTEM_MOVING", "SAFETY_HYDRAULICS_ACTIVE",
      "SAFETY_GPS_UNAVAILABLE", "SAFETY_POWER_INSUFFICIENT", "SAFETY_CRITICAL_OPERATION">>

\* which of the six checks fail, each taken on its own
CheckFails(s, now, moduleRole) ==
    <<s._updateModeActive,
      ~isSystemStationary(s, now).ok,
      ~areHydraulicsIdle(s, now, moduleRole),
      ~isGPSDataValid(s).ok,
      ~isPowerSufficient(s).ok,
      ~checkCriticalOperations>>

FirstFailure(s, now, moduleRole) ==
    LET fails == CheckFails(s, now, moduleRole)
        failing == {i \in 1..Len(GateOrder) : fails[i]}
    IN IF failing = {} THEN "SAFETY_OK"
       ELSE GateOrder[CHOOSE i \in failing : \A j \in failing : i <= j]

\* C19: isSafeToUpdate() returns the result code of the earliest failing check
\* in the order update-in-progress, stationary, hydraulics idle, GPS valid,
\* power sufficient, no critical operation, and Ok only when no check fails
C19_FirstFailingCheckDecides ==
    [][isSafeToUpdate_call =>
          /\ isSafeToUpdate(UpdateSafetyManager, millis, role).result
                = FirstFailure(UpdateSafetyManager, millis, role)
          /\ UpdateSafetyManager'._lastSafetyResult
                = FirstFailure(UpdateSafetyManager, millis, role)]_vars

\* the gate answered System-moving while the hydraulics and the power checks fail too
C19_Witness ==
    /\ UpdateSafetyManager._lastSafetyResult = "SAFETY_SYSTEM_MOVING"
    /\ ~UpdateSafetyManager._updateModeActive
    /\ CheckFails(UpdateSafetyManager, millis, role)[3]
    /\ CheckFails(UpdateSafetyManager, millis, role)[5]
    /\ UpdateSafetyManager._lastMotionTime = millis

\* C20: enterUpdateMode() re-runs the gate; on Ok the mode goes Normal,
\* Preparing, Active and update mode becomes active; otherwise the mode and
\* the active flag are unchanged (the call returns false)
C20_EnterUpdateModeGated ==
    [][enterUpdateMode =>
          LET g == isSafeToUpdate(UpdateSafetyManager, millis, role)
          IN IF g.result = "SAFETY_OK"
             THEN /\ UpdateSafetyManager._currentMode = "UPDATE_MODE_NORMAL"
                  /\ prepareForUpdate(g.s).s._currentMode = "UPDATE_MODE_PREPARING"
                  /\ UpdateSafetyManager'._currentMode = "UPDATE_MODE_ACTIVE"
                  /\ UpdateSafetyManager'._updateModeActive
             ELSE /\ UpdateSafetyManager'._currentMode = UpdateSafetyManager._currentMode
                  /\ UpdateSafetyManager'._updateModeActive
                        = UpdateSafetyManager._updateModeActive
                  /\ UpdateSafetyManager'._lastSafetyResult = g.result]_vars

\* update mode was entered through a passing gate
C20_Witness ==
    /\ UpdateSafetyManager._currentMode = "UPDATE_MODE_ACTIVE"
    /\ UpdateSafetyManager._updateModeActive
    /\ UpdateSafetyManager._lastSafetyResult = "SAFETY_OK"


\* the rollback commands of the operator
RollbackPackets == {c \in OTACommandPackets : c.Command = OTA_CMD_ROLLBACK}

\* C21: the session status Rollback and the restore of the backup are entered
\* only by processing a rollback command; no failure path of the update
\* workflow and no cancel sets status Rollback or starts a restore
C21_RollbackOnlyByCommand ==
    [][(\/ VersionManager'._updateStatus = "UPDATE_ROLLBACK"
           /\ VersionManager._updateStatus # "UPDATE_ROLLBACK"
        \/ pc' = "ota_rollback" /\ pc # "ota_rollback"
        \/ wf'.op = "restore" /\ wf.op # "restore")
       => \E command \in RollbackPackets, mallocOk \in BOOLEAN :
             OTA_update(OTACommandPacketSize, command, mallocOk)]_vars

\* a rollback command is being served after an update attempt has failed
C21_Witness ==
    /\ pc = "ota_rollback"
    /\ VersionManager._updateStatus = "UPDATE_ROLLBACK"
    /\ VersionManager._updateError = "Failed to allocate firmware buffer"


\* what the answer says, however the parser reads it: the status code of the
\* status line, and the declared length (-1 when no length is declared)
StatusCodeOf(response) ==
    LET k == {i \in 1..Len(response.lines) :
                 response.lines[i].prefix \in {"HTTP/1.1 ", "HTTP/1.0 "}}
    IN IF k = {} THEN 0 ELSE response.lines[CHOOSE i \in k : \A j \in k : i <= j].value
DeclaredLengthOf(response) ==
    LET k == {i \in 1..Len(response.lines) : response.lines[i].prefix = "Content-Length:"}
    IN IF k = {} THEN -1 ELSE response.lines[CHOOSE i \in k : \A j \in k : i <= j].value

\* C22: downloadFirmware() returns success only if the response had status
\* 200 and a positive Content-Length and exactly that many body bytes were
\* received; every other answer ends in DownloadFailed
C22_DownloadSuccessOnlyIfComplete ==
    [][\A response \in HttpResponses :
          downloadFirmware(response) =>
             LET r == downloadFirmware_result(RgFModuleUpdater, flash, response)
             IN /\ r.ok => /\ response.connects /\ response.answers
                           /\ StatusCodeOf(response) = 200
                           /\ DeclaredLengthOf(response) > 0
                           /\ r.u._newFirmwareInfo.size = DeclaredLengthOf(response)
                /\ ~r.ok => /\ r.u._status = "UPDATE_FAILED"
                            /\ r.u._lastError = "DOWNLOAD_FAILED"]_vars


\* the digest hash with bit k (0..255) inverted
FlipBit(hash, k) ==
    LET bit == 2 ^ (k % 8)
    IN [hash EXCEPT ![(k \div 8) + 1] = IF (@ \div bit) % 2 = 1 THEN @ - bit ELSE @ + bit]

\* the bytes that validateFirmware() is about to check
StagedFirmware ==
    readFlashBlock(flash, RgFModuleUpdater._flashBuffer, RgFModuleUpdater._newFirmwareInfo.size)

\* C23: for every byte buffer b, validateSHA256Hash(b, sha256(b)) is true,
\* and validateSHA256Hash(b, h) is false for every h that differs from
\* sha256(b) in one bit
C23_HashAcceptedOnlyIfEqual ==
    pc = "validate" =>
       /\ validateSHA256Hash(StagedFirmware, calculateSHA256(StagedFirmware))
       /\ \A k \in 0..255 :
             ~validateSHA256Hash(StagedFirmware, FlipBit(calculateSHA256(StagedFirmware), k))

\* a staged image of more than one byte is about to be validated against
\* the digest recorded for it
C23_Witness ==
    /\ pc = "validate"
    /\ Len(StagedFirmware) > 1
    /\ RgFModuleUpdater._newFirmwareInfo.sha256_hash = calculateSHA256(StagedFirmware)


\* the four ordered fields of a version, and the lexicographic order on them
VersionFields(v) == <<v.major, v.minor, v.patch, v.buildNumber>>
LexLess(a, b) == \E i \in 1..Len(a) : a[i] < b[i] /\ \A j \in 1..(i - 1) : a[j] = b[j]

\* C24: compareVersions(v1, v2) is the lexicographic order over (major,
\* minor, patch, build): it returns -1, 0 or 1, 0 exactly when the four
\* fields are equal, it is antisymmetric, and isVersionNewer(current,
\* available) is true exactly when available is strictly greater
C24_CompareIsLexicographic ==
    LET v1 == caller.args[1]
        v2 == caller.args[2]
        r == caller.result[1]
    IN /\ caller.fn = "compareVersions" =>
             /\ r \in {-1, 0, 1}
             /\ r = 0 <=> VersionFields(v1) = VersionFields(v2)
             /\ r = -1 <=> LexLess(VersionFields(v1), VersionFields(v2))
             /\ r = 1 <=> LexLess(VersionFields(v2), VersionFields(v1))
             /\ compareVersions(v2, v1) = -r
       /\ caller.fn = "isVersionNewer" => (r <=> LexLess(VersionFields(v1), VersionFields(v2)))

\* two versions that differ in the build number only have been compared
C24_Witness ==
    /\ caller.fn = "compareVersions"
    /\ caller.args[1].buildNumber < caller.args[2].buildNumber
    /\ [caller.args[1] EXCEPT !.buildNumber = 0] = [caller.args[2] EXCEPT !.buildNumber = 0]
    /\ caller.result = <<-1>>


\* the results of validateBackup() that refuse the backup
BackupRefusals ==
    {"BACKUP_ERROR_CORRUPTED", "BACKUP_ERROR_VERSION_MISMATCH", "BACKUP_ERROR_NO_BACKUP"}

BackupAttempted ==
    \/ FlashBackupManager._initialized
    \/ FlashBackupManager._backupStatus.lastError # ""
    \/ readFlashBlock(flash, BACKUP_FIRMWARE_BASE, FIRMWARE_MAX_SIZE)
          = readFlashBlock(flash, CURRENT_FIRMWARE_BASE, FIRMWARE_MAX_SIZE)

\* C26: in the flash step a backup of the current firmware into the backup
\* bank is attempted before the first erase of the current bank, and a
\* failed backup does not abort the flash step
C26_BackupAttemptedBeforeErase ==
    [][(flashFirmware /\ RgFModuleUpdater._flashBuffer # 0
                      /\ RgFModuleUpdater._newFirmwareInfo.size # 0)
          => pc' = "erase" /\ BackupAttempted']_vars


\* the number of sectors that cover n bytes: the least k with k sectors >= n
SectorsCovering(n) ==
    CHOOSE k \in 0..n : k * FLASH_SECTOR_SIZE >= n /\ (k = 0 \/ (k - 1) * FLASH_SECTOR_SIZE < n)

\* sector i of the current bank, as the flash f holds it
CurrentBankSector(f, i) ==
    readFlashBlock(f, CURRENT_FIRMWARE_BASE + (i * FLASH_SECTOR_SIZE), FLASH_SECTOR_SIZE)

\* C27: for an image of N bytes flashFirmware() erases exactly the sectors
\* 0 .. ceil(N / sector size) - 1 of the current bank, in increasing order
\* and all before the first write, and no sector above them
C27_ErasesCoveringSectors ==
    [][/\ (pc # "erase" /\ pc' = "erase") => wf'.i = 0
       /\ (pc = "erase" /\ pc' # "idle") =>
             /\ wf.i < SectorsCovering(RgFModuleUpdater._newFirmwareInfo.size)
             /\ flash' = EraseSectorAt(flash, CURRENT_FIRMWARE_BASE + (wf.i * FLASH_SECTOR_SIZE))
             /\ \A j \in 0..(BankSectors - 1) :
                   j # wf.i => CurrentBankSector(flash', j) = CurrentBankSector(flash, j)
             /\ pc' = "erase" => wf'.i = wf.i + 1
             /\ pc' # "erase" =>
                   /\ pc' = "write"
                   /\ wf.i + 1 = SectorsCovering(RgFModuleUpdater._newFirmwareInfo.size)
       /\ pc = "write" => pc' # "erase"]_vars

\* the one sector that covers a two-byte image has been erased, the sector
\* above it still holds what it held, and the first write is due
C27_Witness ==
    /\ pc = "write"
    /\ wf.i = 0
    /\ RgFModuleUpdater._newFirmwareInfo.size = FLASH_SECTOR_SIZE
    /\ CurrentBankSector(flash, 0) = [k \in 1..FLASH_SECTOR_SIZE |-> ERASED]
    /\ CurrentBankSector(flash, 1) # [k \in 1..FLASH_SECTOR_SIZE |-> ERASED]


\* the mode changes of the cycle Normal, Preparing, Active, Recovery, Normal
ModeCycle ==
    {<<"UPDATE_MODE_NORMAL", "UPDATE_MODE_PREPARING">>,
     <<"UPDATE_MODE_PREPARING", "UPDATE_MODE_ACTIVE">>,
     <<"UPDATE_MODE_ACTIVE", "UPDATE_MODE_RECOVERY">>,
     <<"UPDATE_MODE_RECOVERY", "UPDATE_MODE_NORMAL">>}

\* a handler that assigns the modes in this order ends in mode last and
\* makes only changes of the cycle
FollowsCycle(modes, last) ==
    /\ modes[Len(modes)] = last
    /\ \A i \in 1..(Len(modes) - 1) : modes[i + 1] = modes[i] \/ <<modes[i], modes[i + 1]>> \in ModeCycle

\* C28: every change of the safety mode follows the cycle Normal, Preparing,
\* Active, Recovery, Normal under any sequence of enterUpdateMode,
\* exitUpdateMode, update ticks and emergencyAbortUpdate
C28_ModeFollowsCycle ==
    [][/\ enterUpdateMode =>
             FollowsCycle(enterUpdateMode_modes(UpdateSafetyManager, millis, role),
                          UpdateSafetyManager'._currentMode)
       /\ exitUpdateMode =>
             FollowsCycle(exitUpdateMode_modes(UpdateSafetyManager),
                          UpdateSafetyManager'._currentMode)
       /\ update =>
             FollowsCycle(update_modes(UpdateSafetyManager, millis, role),
                          UpdateSafetyManager'._currentMode)
       /\ emergencyAbortUpdate_call =>
             FollowsCycle(emergencyAbortUpdate_modes(UpdateSafetyManager),
                          UpdateSafetyManager'._currentMode)]_vars


\* C29: during the flash step the safety gate is checked before the
\* erase/write burst and again between successive chunk writes: a chunk
\* after the first is written only if the gate, evaluated on the conditions
\* of that moment, has returned Ok
C29_GateRecheckedBetweenChunks ==
    [][(pc = "write" /\ wf.i > 0 /\ pc' \in {"write", "verify"})
          => /\ UpdateSafetyManager._lastSafetyResult = "SAFETY_OK"
             /\ isSafeToUpdate(UpdateSafetyManager, millis, role).result = "SAFETY_OK"]_vars


\* C30: the result of validateFirmwareIntegrity() depends only on the
\* SHA-256 comparison: it returns true exactly when the digest of the data
\* equals the recorded digest, and a CRC32 that differs from the recorded
\* one then only raises a warning
C30_IntegrityDecidedBySHA256 ==
    caller.fn = "validateFirmwareIntegrity"
        => LET data == caller.args[1]
               info == caller.args[2]
               shaMatches == calculateSHA256(data) = info.sha256_hash
               crcMatches == calculateCRC32(data) = info.crc32
           IN /\ caller.result[1].ok = shaMatches
              /\ (shaMatches /\ ~crcMatches) => caller.result[1].log = "LOG_WARNING"

C30_Witness ==
    /\ caller.fn = "validateFirmwareIntegrity"
    /\ calculateSHA256(caller.args[1]) = caller.args[2].sha256_hash
    /\ calculateCRC32(caller.args[1]) # caller.args[2].crc32
    /\ caller.result[1].ok = TRUE


\* the commands that only report or acknowledge
QueryAndAbortPackets ==
    {DefaultCommandPacket, [DefaultCommandPacket EXCEPT !.Command = "ABORT_UPDATE"]}

\* C31: processing a STATUS_QUERY or an ABORT_UPDATE command leaves the
\* session status, progress and error, the safety mode, the updater and all
\* flash contents unchanged: ABORT_UPDATE is acknowledged in the log and
\* neither interrupts nor resets a session
C31_QueryAndAbortChangeNothing ==
    [][(\E packetSize \in PacketSizes, command \in QueryAndAbortPackets, readOk, sendOk \in BOOLEAN :
            processRgFModuleUpdateCommands(packetSize, command, readOk, sendOk))
          => UNCHANGED <<VersionManager, UpdateSafetyManager, RgFModuleUpdater, firmwareHash,
                         flash, pc, wf>>]_vars

\* an ABORT_UPDATE has been processed while the session was Flashing at 50 %
C31_Witness ==
    /\ VersionManager._updateStatus = "UPDATE_FLASHING"
    /\ VersionManager._updateProgress = 50
    /\ NetworkManager._packetsReceived > 0
    /\ networkLog = "RgFModuleUpdate: Update abort not yet implemented"


\* C33: downloadFirmware() always terminates: when the server never answers,
\* the wait for the response ends with DownloadFailed once the 10 s of the
\* timeout and one polling delay have passed, so the loop never makes more
\* than ResponseTimeout / PollDelay + 1 passes
C33_DownloadWaitEnds ==
    pc = "http_wait" => wf.i <= (ResponseTimeout \div PollDelay) + 1


\* C34: after flashFirmware() has returned success for an image of N bytes,
\* bytes [0, N) of the current bank equal the N image bytes that
\* validateFirmware() checked in the scratch buffer
C34_CurrentBankHoldsValidatedImage ==
    pc = "verify"
        => readFlashBlock(flash, FLASH_BASE_ADDR, RgFModuleUpdater._newFirmwareInfo.size) = wf.data


\* the contents of the backup bank
BackupBank(f) == readFlashBlock(f, BACKUP_FIRMWARE_BASE, FIRMWARE_MAX_SIZE)

\* C35: createFlashBuffer() and freeFlashBuffer() never erase a sector of
\* the backup bank: its contents are the same after the scratch buffer has
\* been created or freed as before
C35_BufferLeavesBackupBank ==
    [][(\/ \E data \in Images, failAt \in InitFailPoints : createFlashBuffer(data, failAt)
        \/ \E failAt \in InitFailPoints : createFlashBuffer_call(failAt)
        \/ performUpdateFromBuffer_finish)
          => BackupBank(flash') = BackupBank(flash)]_vars


\* the flash bytes that differ between f and g lie in [address, address + size)
ChangesOnlyIn(f, g, address, size) ==
    \A o \in DOMAIN f :
        f[o] # g[o] => (FLASH_BASE_ADDR + o >= address /\ FLASH_BASE_ADDR + o < address + size)

\* C36: under either definition of flash_write_block, a write issued by
\* writeFirmwareToBank(bank, buf, size, offset) is programmed at bank + offset
\* and changes only flash bytes in [bank + offset, bank + offset + size), and
\* a write issued by flashFirmware() is programmed at FLASH_BASE_ADDR +
\* bytesFlashed and changes only bytes of the current bank from there
C36_WritesLandWhereTheCallerMeans ==
    [][/\ (pc = "bank_copy" /\ wf'.i > wf.i)
            => /\ flash_write_address(TargetBank + wf.i - FLASH_BASE_ADDR) = TargetBank + wf.i
               /\ ChangesOnlyIn(flash, flash', TargetBank + wf.i, wf'.i - wf.i)
       /\ (pc = "write" /\ (pc' = "verify" \/ wf'.i > wf.i))
            => /\ flash_write_address(FLASH_BASE_ADDR + wf.i) = FLASH_BASE_ADDR + wf.i
               /\ ChangesOnlyIn(flash, flash', FLASH_BASE_ADDR + wf.i, CHUNK_SIZE)]_vars


C38_ActiveFlagAgreesWithMode ==
    pc = "idle"
        => /\ UpdateSafetyManager._updateModeActive
                <=> UpdateSafetyManager._currentMode = "UPDATE_MODE_ACTIVE"
           /\ UpdateSafetyManager._currentMode \in {"UPDATE_MODE_NORMAL", "UPDATE_MODE_ACTIVE"}

\* update mode has been entered, the gate has been asked while it was active,
\* and update mode has been left again
C38_Witness ==
    /\ UpdateSafetyManager._lastSafetyResult = "SAFETY_UPDATE_IN_PROGRESS"
    /\ ~UpdateSafetyManager._updateModeActive
    /\ UpdateSafetyManager._currentMode = "UPDATE_MODE_NORMAL"


\* C39: during one run of performUpdateFromBuffer() the progress of
\* RgFModuleUpdater is within 0..100 and never decreases from one report to
\* the next, and it is 100 only together with the status Success
C39_ProgressMonotoneWithin100 ==
    [][/\ RgFModuleUpdater'._progress \in 0..100
       /\ pc # "idle" => RgFModuleUpdater'._progress >= RgFModuleUpdater._progress
       /\ RgFModuleUpdater'._progress = 100 => RgFModuleUpdater'._status = "UPDATE_SUCCESS"]_vars

\* a run over an image of more than one chunk has ended with progress 100
C39_Witness ==
    /\ pc = "idle"
    /\ RgFModuleUpdater._progress = 100
    /\ RgFModuleUpdater._status = "UPDATE_SUCCESS"
    /\ RgFModuleUpdater._newFirmwareInfo.size > CHUNK_SIZE

====
